---- MODULE Spec2Model ----
(***************************************************************************)
(* Footballytics: the FootballAPI fetch/cache/mock-fallback layer, its      *)
(* response normalisers, and the TabManager tab-switching controller.       *)
(*                                                                         *)
(* JSON values: an object is a record, an array a sequence, a string a     *)
(* string.  A property that is absent reads as Undefined and one holding   *)
(* null as "null"; both are falsy.  A number the code may leave null or    *)
(* NaN is a record [kind, val].  A response body that is JSON null itself  *)
(* is the value JsNull, on which a property read throws a TypeError.       *)
(*                                                                         *)
(* Every `await this.fetchData(...)` is a suspension point of the calling  *)
(* async function: the caller is resumed by a later step, and the steps of *)
(* different calls interleave there.                                       *)
(*                                                                         *)
(* Spec and SpecRepeat drive fetchData directly (several keys; one key     *)
(* with the clock advancing).  SpecTab drives switchTab with calls that    *)
(* may overlap, SpecTabSeq with calls made one after another, and SpecRace *)
(* with overlapping calls on the tabs that await once.  SpecResults and    *)
(* SpecTeams drive one tab over several competitions and seasons, and      *)
(* SpecCold the first league-tables call of a TabManager.                  *)
(* SpecCodes drives the first call over mapped, unmapped and inherited     *)
(* competition codes, SpecAnalytics drives fetchAnalyticsData, and         *)
(* SpecPeers two FootballAPI instances asked for the same key.  SpecMock   *)
(* runs every method that builds an endpoint key on a cold cache, SpecStatus *)
(* the two match methods and SpecLive the live-matches tab over events of   *)
(* every kind of status.                                                    *)
(* SpecUpcoming repeats the live-matches tab over competitions and seasons. *)
(* SpecPast runs fetchCompetitionMatches over seasons and bodies.          *)
(* SpecTopTeam drives fetchAnalyticsData over tables with tied or no goals. *)
(* SpecScorers runs fetchTopScorers over competitions, seasons and bodies.  *)
(* SpecForm drives the contact form: edits, submissions, the send settling. *)
(***************************************************************************)
EXTENDS Integers, Sequences, FiniteSets, TLC

VARIABLES
    cache,      \* FootballAPI.cache: endpoint -> [data, timestamp]
    now,        \* Date.now()
    ticks,      \* number of clock advances so far
    http,       \* endpoint -> number of live GET requests issued for it
    calls,      \* the fetchData calls made directly on the FootballAPI
    thisActiveTab,  \* TabManager.activeTab, the field
    activeTab,  \* the host page's state written through setActiveTab
    isLoading,  \* the host page's state written through setLoading
    tabData,    \* the host page's state written through setTabData
    tabs,       \* the switchTab calls made on the TabManager; `fetched` lists
                \* what the fetchData calls of a switchTab call resolved with
    analytics,  \* the fetchAnalyticsData call of the page, and its two feeds
    peer,       \* a second FootballAPI instance of the page: its cache, its call
    direct,     \* a call made on the FootballAPI itself, outside the TabManager
    contactForm \* the contact form: its React state, its submission, what it sent

tabVars == <<thisActiveTab, activeTab, isLoading, tabData, tabs>>

pageVars == <<analytics, peer, direct, contactForm>>

vars == <<cache, now, ticks, http, calls, tabVars, pageVars>>

-----------------------------------------------------------------------------
(* Bounds *)

\* fetchData calls made on the FootballAPI by independent callers
MaxCalls == 2
\* handleSubmit calls made on the contact form
MaxSubmits == 2
\* fetchData calls made for one and the same endpoint key
MaxRepeat == 3
\* clock advances, each of half the cache expiry
MaxTicks == 2
\* switchTab calls made on the TabManager
MaxSwitch == 2
\* fetchAnalyticsData calls made, one after another
MaxAnalytics == 2

\* fetchData calls made through the second FootballAPI instance
MaxPeerCalls == 2

-----------------------------------------------------------------------------
(* FootballAPI constructor *)

cacheExpiry == 600000

-----------------------------------------------------------------------------
(* JavaScript helpers *)

JsNull == [jsNull |-> TRUE]

\* String.prototype.includes
Includes(s, sub) ==
    \E i \in 1..(Len(s) - Len(sub) + 1) : SubSeq(s, i, i + Len(sub) - 1) = sub

\* obj.f is present and truthy (objects and arrays are truthy, also empty ones)
Has(obj, f) == f \in DOMAIN obj

\* the value is JSON null
IsNull(v) == "jsNull" \in DOMAIN v

\* a property that is undefined (absent) or null reads as one of these
Undefined == "undefined"

\* obj.f, undefined when the object has no such property
Field(obj, f) == IF f \in DOMAIN obj THEN obj[f] ELSE Undefined

\* truthiness of a string-valued property (undefined, null and "" are falsy)
Truthy(v) == v \notin {Undefined, "null", ""}

\* a || b on string-valued operands
OrElse(v, default) == IF Truthy(v) THEN v ELSE default

DigitValue ==
    ("0" :> 0) @@ ("1" :> 1) @@ ("2" :> 2) @@ ("3" :> 3) @@ ("4" :> 4) @@
    ("5" :> 5) @@ ("6" :> 6) @@ ("7" :> 7) @@ ("8" :> 8) @@ ("9" :> 9)

\* a number-valued property: a number, null or NaN
Num(n) == [kind |-> "number", val |-> n]

NullNum == [kind |-> "null", val |-> 0]

NaN == [kind |-> "NaN", val |-> 0]

RECURSIVE ParseDigits(_, _, _)
\* the longest run of decimal digits of s from position i on, read as a number
ParseDigits(s, i, acc) ==
    IF i > Len(s) \/ SubSeq(s, i, i) \notin DOMAIN DigitValue
    THEN acc
    ELSE ParseDigits(s, i + 1, 10 * acc + DigitValue[SubSeq(s, i, i)])

\* parseInt: an optional sign and a run of digits, NaN when there is none
ParseInt(s) ==
    LET neg == Len(s) >= 1 /\ SubSeq(s, 1, 1) = "-"
        from == IF neg \/ (Len(s) >= 1 /\ SubSeq(s, 1, 1) = "+") THEN 2 ELSE 1
    IN  IF from > Len(s) \/ SubSeq(s, from, from) \notin DOMAIN DigitValue
        THEN NaN
        ELSE Num(IF neg THEN 0 - ParseDigits(s, from, 0) ELSE ParseDigits(s, from, 0))

\* parseInt(s) || default on a number-valued default
ParseIntOr(s, default) ==
    IF ParseInt(s).kind = "NaN" \/ ParseInt(s).val = 0 THEN default ELSE ParseInt(s).val

UpperCase ==
    ("a" :> "A") @@ ("b" :> "B") @@ ("c" :> "C") @@ ("d" :> "D") @@ ("e" :> "E") @@
    ("f" :> "F") @@ ("g" :> "G") @@ ("h" :> "H") @@ ("i" :> "I") @@ ("j" :> "J") @@
    ("k" :> "K") @@ ("l" :> "L") @@ ("m" :> "M") @@ ("n" :> "N") @@ ("o" :> "O") @@
    ("p" :> "P") @@ ("q" :> "Q") @@ ("r" :> "R") @@ ("s" :> "S") @@ ("t" :> "T") @@
    ("u" :> "U") @@ ("v" :> "V") @@ ("w" :> "W") @@ ("x" :> "X") @@ ("y" :> "Y") @@
    ("z" :> "Z")

RECURSIVE ToUpperCase(_)
ToUpperCase(s) ==
    IF Len(s) = 0 THEN ""
    ELSE LET ch == SubSeq(s, 1, 1) IN
         (IF ch \in DOMAIN UpperCase THEN UpperCase[ch] ELSE ch)
            \o ToUpperCase(SubSeq(s, 2, Len(s)))

\* name?.substring(0, 3).toUpperCase()
Tla3(name) ==
    IF name \in {Undefined, "null"} THEN Undefined
    ELSE ToUpperCase(SubSeq(name, 1, IF Len(name) < 3 THEN Len(name) ELSE 3))

-----------------------------------------------------------------------------
(* FootballAPI.getMockData *)

NoScore == "null"

MockTeamsPayload ==
    [teams |-> <<
        [idTeam |-> "133604", strTeam |-> "Arsenal", strTeamShort |-> "ARS",
         strBadge |-> "https://www.thesportsdb.com/images/media/team/badge/arsenal.png",
         intFormedYear |-> "1886", strStadium |-> "Emirates Stadium",
         strWebsite |-> "www.arsenal.com", strLocation |-> "London, England"],
        [idTeam |-> "133612", strTeam |-> "Chelsea", strTeamShort |-> "CHE",
         strBadge |-> "https://www.thesportsdb.com/images/media/team/badge/chelsea.png",
         intFormedYear |-> "1905", strStadium |-> "Stamford Bridge",
         strWebsite |-> "www.chelseafc.com", strLocation |-> "London, England"],
        [idTeam |-> "133602", strTeam |-> "Liverpool", strTeamShort |-> "LIV",
         strBadge |-> "https://www.thesportsdb.com/images/media/team/badge/liverpool.png",
         intFormedYear |-> "1892", strStadium |-> "Anfield",
         strWebsite |-> "www.liverpoolfc.com", strLocation |-> "Liverpool, England"],
        [idTeam |-> "133616", strTeam |-> "Manchester City", strTeamShort |-> "MCI",
         strBadge |-> "https://www.thesportsdb.com/images/media/team/badge/manchester-city.png",
         intFormedYear |-> "1880", strStadium |-> "Etihad Stadium",
         strWebsite |-> "www.mancity.com", strLocation |-> "Manchester, England"] >>,
     _isMockData |-> TRUE,
     _notice |-> "This is demonstration data. In production, this would be live data from TheSportsDB API."]

MockTableRow(rank, id, name, played, win, draw, loss, gf, ga, gd, pts, badge, form) ==
    [intRank |-> rank, idTeam |-> id, strTeam |-> name, intPlayed |-> played,
     intWin |-> win, intDraw |-> draw, intLoss |-> loss, intGoalsFor |-> gf,
     intGoalsAgainst |-> ga, intGoalDifference |-> gd, intPoints |-> pts,
     strBadge |-> badge, strForm |-> form]

MockTablePayload ==
    [table |-> <<
        MockTableRow("1", "133602", "Liverpool", "15", "11", "3", "1", "29", "8", "21", "36",
            "https://www.thesportsdb.com/images/media/team/badge/liverpool.png", "WWWDW"),
        MockTableRow("2", "133604", "Arsenal", "15", "9", "5", "1", "26", "12", "14", "32",
            "https://www.thesportsdb.com/images/media/team/badge/arsenal.png", "WWDLD"),
        MockTableRow("3", "133616", "Manchester City", "15", "9", "4", "2", "31", "15", "16", "31",
            "https://www.thesportsdb.com/images/media/team/badge/manchester-city.png", "WLDWW"),
        MockTableRow("4", "133612", "Chelsea", "15", "8", "4", "3", "28", "18", "10", "28",
            "https://www.thesportsdb.com/images/media/team/badge/chelsea.png", "WWLWD") >>,
     _isMockData |-> TRUE,
     _notice |-> "This is demonstration data showing Premier League standings."]

\* dateEvent is computed from the clock: "D+n" stands for the ISO date n days from today
MockEvent(id, name, home, away, hs, as, date, time, status, round, md) ==
    [idEvent |-> id, strEvent |-> name, strHomeTeam |-> home, strAwayTeam |-> away,
     intHomeScore |-> hs, intAwayScore |-> as, dateEvent |-> date, strTime |-> time,
     strStatus |-> status, strSeason |-> "2024-2025", intRound |-> round, matchday |-> md]

MockEventsPayload ==
    [events |-> <<
        MockEvent("1", "Arsenal vs Chelsea", "Arsenal", "Chelsea", "2", "1",
            "D+0", "17:30:00", "Match Finished", "15", 15),
        MockEvent("2", "Manchester City vs Liverpool", "Manchester City", "Liverpool", "1", "3",
            "D-1", "15:00:00", "Match Finished", "15", 15),
        MockEvent("3", "Liverpool vs Arsenal", "Liverpool", "Arsenal", NoScore, NoScore,
            "D+1", "16:00:00", "Not Started", "16", 16),
        MockEvent("4", "Chelsea vs Manchester City", "Chelsea", "Manchester City", "0", "2",
            "D-2", "14:30:00", "Match Finished", "14", 14),
        MockEvent("5", "Arsenal vs Liverpool", "Arsenal", "Liverpool", "3", "1",
            "D-3", "17:00:00", "Match Finished", "14", 14),
        MockEvent("6", "Manchester City vs Arsenal", "Manchester City", "Arsenal", "1", "1",
            "D-7", "16:30:00", "Match Finished", "13", 13) >>,
     _isMockData |-> TRUE,
     _notice |-> "This is demonstration data showing recent and upcoming matches with proper matchday information."]

MockMessagePayload ==
    [message |-> "Mock data not available for this endpoint", _isMockData |-> TRUE]

getMockData_TableFirst(endpoint) ==
    IF Includes(endpoint, "lookuptable") \/ Includes(endpoint, "table")
    THEN MockTablePayload
    ELSE IF Includes(endpoint, "search_all_teams") \/ Includes(endpoint, "teams")
    THEN MockTeamsPayload
    ELSE IF Includes(endpoint, "events") \/ Includes(endpoint, "matches")
    THEN MockEventsPayload
    ELSE MockMessagePayload

\* the substitute for the endpoint key, by substring tests in source order
getMockData(endpoint) ==
    IF Includes(endpoint, "search_all_teams") \/ Includes(endpoint, "teams")
    THEN MockTeamsPayload
    ELSE IF Includes(endpoint, "lookuptable") \/ Includes(endpoint, "table")
    THEN MockTablePayload
    ELSE IF Includes(endpoint, "events") \/ Includes(endpoint, "matches")
    THEN MockEventsPayload
    ELSE MockMessagePayload

-----------------------------------------------------------------------------
(* FootballAPI: competition lookups *)

\* names every object literal answers to without having them as keys: the
\* properties it inherits from Object.prototype (these among them)
ObjectPrototypeKeys ==
    {"constructor", "toString", "valueOf", "hasOwnProperty", "isPrototypeOf",
     "propertyIsEnumerable", "toLocaleString", "__proto__"}

\* stands for the inherited function or object, which is truthy and no string
Inherited(key) == "[Object.prototype." \o key \o "]"

\* map[key] || default on an object literal `map`
Lookup(map, key, default) ==
    IF key \in DOMAIN map THEN map[key]
    ELSE IF key \in ObjectPrototypeKeys THEN Inherited(key)
    ELSE default

getLeagueId_NoDefault(competition) ==
    Lookup(("PL" :> "4328") @@ ("PD" :> "4335") @@ ("SA" :> "4332") @@
           ("BL1" :> "4331") @@ ("FL1" :> "4334"),
           competition, Undefined)

getLeagueId(competition) ==
    Lookup(("PL" :> "4328") @@ ("PD" :> "4335") @@ ("SA" :> "4332") @@
           ("BL1" :> "4331") @@ ("FL1" :> "4334"),
           competition, "4328")

getCompetitionName(code) ==
    Lookup(("PL" :> "Premier League") @@ ("PD" :> "La Liga") @@ ("SA" :> "Serie A") @@
           ("BL1" :> "Bundesliga") @@ ("FL1" :> "Ligue 1"),
           code, "Football League")

getCountryForCompetition(competition) ==
    Lookup(("PL" :> "England") @@ ("PD" :> "Spain") @@ ("SA" :> "Italy") @@
           ("BL1" :> "Germany") @@ ("FL1" :> "France"),
           competition, "England")

getLeagueName(competition) ==
    Lookup(("PL" :> "English_Premier_League") @@ ("PD" :> "Spanish_La_Liga") @@
           ("SA" :> "Italian_Serie_A") @@ ("BL1" :> "German_Bundesliga") @@
           ("FL1" :> "French_Ligue_1"),
           competition, "English_Premier_League")

BadgeUrl == "https://www.thesportsdb.com/images/media/team/badge/"

DefaultBadge == BadgeUrl \o "default.png"

\* what a rejected promise or a throw carries up to the caller
Threw == [threw |-> TRUE, value |-> JsNull]

Returned(v) == [threw |-> FALSE, value |-> v]

-----------------------------------------------------------------------------
(* FootballAPI.fetchMatches and FootballAPI.fetchCompetitionMatches *)

\* event.intHomeScore ? parseInt(event.intHomeScore) : null
ParseIntIfSet(v) == IF Truthy(v) THEN ParseInt(v) ELSE NullNum

MapEvent_MissingIsScheduled(event, competitionName, season) ==
    [id |-> Field(event, "idEvent"),
     homeTeam |-> [id |-> Field(event, "idHomeTeam"),
                   name |-> Field(event, "strHomeTeam"),
                   shortName |-> Field(event, "strHomeTeam"),
                   tla |-> Tla3(Field(event, "strHomeTeam")),
                   crest |-> OrElse(Field(event, "strHomeTeamBadge"), DefaultBadge)],
     awayTeam |-> [id |-> Field(event, "idAwayTeam"),
                   name |-> Field(event, "strAwayTeam"),
                   shortName |-> Field(event, "strAwayTeam"),
                   tla |-> Tla3(Field(event, "strAwayTeam")),
                   crest |-> OrElse(Field(event, "strAwayTeamBadge"), DefaultBadge)],
     utcDate |-> Field(event, "dateEvent") \o "T"
                    \o OrElse(Field(event, "strTime"), "15:00:00") \o "Z",
     status |-> IF Field(event, "strStatus") = "Match Finished" THEN "FINISHED"
                ELSE IF Field(event, "strStatus") \in {"Not Started", Undefined} THEN "SCHEDULED"
                ELSE "IN_PLAY",
     score |-> [fullTime |-> [home |-> ParseIntIfSet(Field(event, "intHomeScore")),
                              away |-> ParseIntIfSet(Field(event, "intAwayScore"))]],
     competition |-> [name |-> competitionName],
     season |-> OrElse(Field(event, "strSeason"), OrElse(season, "2024-2025")),
     matchday |-> ParseIntIfSet(Field(event, "intRound"))]

\* the object both methods build from one upstream event
MapEvent(event, competitionName, season) ==
    [id |-> Field(event, "idEvent"),
     homeTeam |-> [id |-> Field(event, "idHomeTeam"),
                   name |-> Field(event, "strHomeTeam"),
                   shortName |-> Field(event, "strHomeTeam"),
                   tla |-> Tla3(Field(event, "strHomeTeam")),
                   crest |-> OrElse(Field(event, "strHomeTeamBadge"), DefaultBadge)],
     awayTeam |-> [id |-> Field(event, "idAwayTeam"),
                   name |-> Field(event, "strAwayTeam"),
                   shortName |-> Field(event, "strAwayTeam"),
                   tla |-> Tla3(Field(event, "strAwayTeam")),
                   crest |-> OrElse(Field(event, "strAwayTeamBadge"), DefaultBadge)],
     utcDate |-> Field(event, "dateEvent") \o "T"
                    \o OrElse(Field(event, "strTime"), "15:00:00") \o "Z",
     status |-> IF Field(event, "strStatus") = "Match Finished" THEN "FINISHED"
                ELSE IF Field(event, "strStatus") = "Not Started" THEN "SCHEDULED"
                ELSE "IN_PLAY",
     score |-> [fullTime |-> [home |-> ParseIntIfSet(Field(event, "intHomeScore")),
                              away |-> ParseIntIfSet(Field(event, "intAwayScore"))]],
     competition |-> [name |-> competitionName],
     season |-> OrElse(Field(event, "strSeason"), OrElse(season, "2024-2025")),
     matchday |-> ParseIntIfSet(Field(event, "intRound"))]

NoMatches == [matches |-> <<>>, count |-> 0]

fetchMatchesEndpoint == "/eventsnextleague.php?id=4328"

\* fetchMatches labelling every match with the season of the call
fetchMatches_SeasonOfCall(data, season) ==
    IF IsNull(data) THEN Threw
    ELSE IF Has(data, "events")
    THEN LET MapOne(event) ==
                 [MapEvent(event, "Premier League", season)
                     EXCEPT !.season = OrElse(season, "2024-2025")]
             matches == [i \in 1..Len(data.events) |-> MapOne(data.events[i])]
         IN  Returned([matches |-> matches, count |-> Len(matches)])
    ELSE Returned(NoMatches)

\* fetchMatches from the point where fetchData has resolved with `data`
fetchMatches(data, season) ==
    IF IsNull(data) THEN Threw
    ELSE IF Has(data, "events")
    THEN LET MapOne(event) == MapEvent(event, "Premier League", season)
             matches == [i \in 1..Len(data.events) |-> MapOne(data.events[i])]
         IN  Returned([matches |-> matches, count |-> Len(matches)])
    ELSE Returned(NoMatches)

fetchCompetitionMatchesEndpoint(competition) ==
    "/eventspastleague.php?id=" \o getLeagueId(competition)

\* fetchCompetitionMatches without its season filter
fetchCompetitionMatches_Unfiltered(data, competition, season) ==
    IF IsNull(data) THEN Threw
    ELSE IF Has(data, "events")
    THEN LET MapOne(event) == MapEvent(event, getCompetitionName(competition), season)
             matches == [i \in 1..Len(data.events) |-> MapOne(data.events[i])]
         IN  Returned([matches |-> matches, count |-> Len(matches)])
    ELSE Returned(NoMatches)

\* fetchCompetitionMatches from the point where fetchData has resolved with `data`
fetchCompetitionMatches(data, competition, season) ==
    IF IsNull(data) THEN Threw
    ELSE IF Has(data, "events")
    THEN LET InSeason(event) == Field(event, "strSeason") = season
             events == IF Truthy(season) THEN SelectSeq(data.events, InSeason)
                       ELSE data.events
             MapOne(event) == MapEvent(event, getCompetitionName(competition), season)
             matches == [i \in 1..Len(events) |-> MapOne(events[i])]
         IN  Returned([matches |-> matches, count |-> Len(matches)])
    ELSE Returned(NoMatches)

-----------------------------------------------------------------------------
(* FootballAPI.fetchStandings and FootballAPI.getMockStandingsData *)

MockStandingsRow(position, name, tla, crest, playedGames, won, draw, lost, points, goalsFor, goalsAgainst, goalDifference, form) ==
    [position |-> position,
     team |-> [id |-> Undefined, name |-> name, shortName |-> Undefined, tla |-> tla,
               crest |-> BadgeUrl \o crest \o ".png"],
     playedGames |-> playedGames, won |-> won, draw |-> draw, lost |-> lost,
     points |-> points, goalsFor |-> goalsFor, goalsAgainst |-> goalsAgainst,
     goalDifference |-> goalDifference, form |-> form]

mockTables ==
    ("PL" :> (
        ("2024-2025" :> <<
            MockStandingsRow(1, "Liverpool", "LIV", "liverpool", 38, 25, 9, 4, 84, 86, 41, 45, "DLDLW"),
            MockStandingsRow(2, "Arsenal", "ARS", "arsenal", 38, 20, 14, 4, 74, 69, 34, 35, "WWDLD"),
            MockStandingsRow(3, "Manchester City", "MCI", "man_city", 38, 21, 8, 9, 71, 72, 44, 28, "WWDWW"),
            MockStandingsRow(4, "Chelsea", "CHE", "chelsea", 38, 20, 9, 9, 69, 64, 43, 21, "WWLWW"),
            MockStandingsRow(5, "Newcastle United", "NEW", "newcastle", 38, 20, 6, 12, 66, 68, 47, 21, "LLWDW") >>)
        @@ ("2023-2024" :> <<
            MockStandingsRow(1, "Manchester City", "MCI", "man_city", 38, 28, 7, 3, 91, 96, 34, 62, "WWWWW"),
            MockStandingsRow(2, "Arsenal", "ARS", "arsenal", 38, 28, 5, 5, 89, 91, 29, 62, "WWWWW"),
            MockStandingsRow(3, "Liverpool", "LIV", "liverpool", 38, 24, 10, 4, 82, 86, 41, 45, "WDWDL"),
            MockStandingsRow(4, "Aston Villa", "AVL", "aston_villa", 38, 20, 8, 10, 68, 76, 61, 15, "LDLDW"),
            MockStandingsRow(5, "Tottenham", "TOT", "tottenham", 38, 20, 6, 12, 66, 74, 61, 13, "WLWLL") >>)
        @@ ("2022-2023" :> <<
            MockStandingsRow(1, "Manchester City", "MCI", "man_city", 38, 28, 5, 5, 89, 94, 33, 61, "LDWWW"),
            MockStandingsRow(2, "Arsenal", "ARS", "arsenal", 38, 26, 6, 6, 84, 88, 43, 45, "WLLWW"),
            MockStandingsRow(3, "Manchester United", "MUN", "man_united", 38, 23, 6, 9, 75, 58, 43, 15, "WWWWL"),
            MockStandingsRow(4, "Newcastle United", "NEW", "newcastle", 38, 19, 14, 5, 71, 68, 33, 35, "DDWDL"),
            MockStandingsRow(5, "Liverpool", "LIV", "liverpool", 38, 19, 10, 9, 67, 75, 47, 28, "DDWWW") >>)
      ))
    @@ ("PD" :> (
        ("2024-2025" :> <<
            MockStandingsRow(1, "Real Madrid", "RMA", "real_madrid", 38, 30, 6, 2, 96, 89, 24, 65, "WWWWW"),
            MockStandingsRow(2, "Barcelona", "BAR", "barcelona", 38, 28, 7, 3, 91, 85, 30, 55, "WDWWL"),
            MockStandingsRow(3, "Atletico Madrid", "ATM", "atletico_madrid", 38, 25, 8, 5, 83, 72, 38, 34, "WDWLW"),
            MockStandingsRow(4, "Real Sociedad", "RSO", "real_sociedad", 38, 20, 10, 8, 70, 65, 45, 20, "WWDLD"),
            MockStandingsRow(5, "Athletic Bilbao", "ATH", "athletic_bilbao", 38, 19, 13, 6, 70, 61, 37, 24, "DWDWW") >>)
        @@ ("2023-2024" :> <<
            MockStandingsRow(1, "Real Madrid", "RMA", "real_madrid", 38, 29, 6, 3, 95, 87, 26, 61, "WWWDW"),
            MockStandingsRow(2, "Barcelona", "BAR", "barcelona", 38, 27, 7, 4, 85, 79, 32, 47, "WDWWL"),
            MockStandingsRow(3, "Girona", "GIR", "girona", 38, 25, 8, 5, 81, 85, 46, 39, "WWLDW"),
            MockStandingsRow(4, "Atletico Madrid", "ATM", "atletico_madrid", 38, 24, 8, 6, 76, 70, 43, 27, "WDWLW"),
            MockStandingsRow(5, "Athletic Bilbao", "ATH", "athletic_bilbao", 38, 19, 13, 6, 68, 61, 37, 24, "DWDWW") >>)
        @@ ("2022-2023" :> <<
            MockStandingsRow(1, "Barcelona", "BAR", "barcelona", 38, 28, 4, 6, 88, 70, 20, 50, "WWWWL"),
            MockStandingsRow(2, "Real Madrid", "RMA", "real_madrid", 38, 24, 6, 8, 78, 75, 36, 39, "WLWWW"),
            MockStandingsRow(3, "Atletico Madrid", "ATM", "atletico_madrid", 38, 23, 8, 7, 77, 70, 33, 37, "WWDLW"),
            MockStandingsRow(4, "Real Sociedad", "RSO", "real_sociedad", 38, 20, 11, 7, 71, 51, 35, 16, "DWDLW"),
            MockStandingsRow(5, "Villarreal", "VIL", "villarreal", 38, 19, 7, 12, 64, 59, 37, 22, "WLWDL") >>)
      ))
    @@ ("SA" :> (
        ("2024-2025" :> <<
            MockStandingsRow(1, "Inter Milan", "INT", "inter_milan", 38, 29, 7, 2, 94, 89, 22, 67, "WWWWW"),
            MockStandingsRow(2, "AC Milan", "MIL", "ac_milan", 38, 26, 8, 4, 86, 76, 31, 45, "WDWWL"),
            MockStandingsRow(3, "Juventus", "JUV", "juventus", 38, 24, 10, 4, 82, 64, 29, 35, "DWDWW"),
            MockStandingsRow(4, "Napoli", "NAP", "napoli", 38, 23, 8, 7, 77, 74, 42, 32, "WWLDW"),
            MockStandingsRow(5, "AS Roma", "ROM", "as_roma", 38, 20, 9, 9, 69, 65, 45, 20, "WLWDL") >>)
        @@ ("2023-2024" :> <<
            MockStandingsRow(1, "Inter Milan", "INT", "inter_milan", 38, 28, 7, 3, 91, 89, 22, 67, "WWWWW"),
            MockStandingsRow(2, "AC Milan", "MIL", "ac_milan", 38, 25, 8, 5, 83, 76, 31, 45, "WDWWL"),
            MockStandingsRow(3, "Juventus", "JUV", "juventus", 38, 23, 10, 5, 79, 64, 29, 35, "DWDWW"),
            MockStandingsRow(4, "Napoli", "NAP", "napoli", 38, 22, 8, 8, 74, 74, 42, 32, "WWLDW"),
            MockStandingsRow(5, "AS Roma", "ROM", "as_roma", 38, 19, 9, 10, 66, 65, 45, 20, "WLWDL") >>)
        @@ ("2022-2023" :> <<
            MockStandingsRow(1, "Napoli", "NAP", "napoli", 38, 28, 8, 2, 90, 77, 28, 49, "WWWWW"),
            MockStandingsRow(2, "Lazio", "LAZ", "lazio", 38, 22, 7, 9, 73, 60, 35, 25, "WLWWL"),
            MockStandingsRow(3, "Inter Milan", "INT", "inter_milan", 38, 23, 4, 11, 73, 71, 42, 29, "LWWDW"),
            MockStandingsRow(4, "AC Milan", "MIL", "ac_milan", 38, 20, 12, 6, 72, 57, 40, 17, "DDWWL"),
            MockStandingsRow(5, "Atalanta", "ATA", "atalanta", 38, 19, 10, 9, 67, 64, 42, 22, "WDWLW") >>)
      ))
    @@ ("BL1" :> (
        ("2024-2025" :> <<
            MockStandingsRow(1, "Bayern Munich", "BAY", "bayern_munich", 34, 26, 6, 2, 84, 94, 27, 67, "WWWWW"),
            MockStandingsRow(2, "Borussia Dortmund", "BVB", "borussia_dortmund", 34, 22, 8, 4, 74, 73, 38, 35, "WDWWL"),
            MockStandingsRow(3, "RB Leipzig", "RBL", "rb_leipzig", 34, 20, 9, 5, 69, 68, 37, 31, "DWDWW"),
            MockStandingsRow(4, "Bayer Leverkusen", "B04", "bayer_leverkusen", 34, 19, 10, 5, 67, 65, 37, 28, "WWLDW"),
            MockStandingsRow(5, "Eintracht Frankfurt", "SGE", "eintracht_frankfurt", 34, 18, 7, 9, 61, 58, 44, 14, "WLWDL") >>)
        @@ ("2023-2024" :> <<
            MockStandingsRow(1, "Bayer Leverkusen", "B04", "bayer_leverkusen", 34, 28, 6, 0, 90, 89, 24, 65, "WWWWW"),
            MockStandingsRow(2, "Bayern Munich", "BAY", "bayern_munich", 34, 24, 8, 2, 80, 94, 45, 49, "WDWWL"),
            MockStandingsRow(3, "VfB Stuttgart", "VFB", "vfb_stuttgart", 34, 23, 4, 7, 73, 78, 39, 39, "WWLDW"),
            MockStandingsRow(4, "RB Leipzig", "RBL", "rb_leipzig", 34, 19, 9, 6, 66, 68, 37, 31, "DWDWW"),
            MockStandingsRow(5, "Borussia Dortmund", "BVB", "borussia_dortmund", 34, 18, 9, 7, 63, 68, 42, 26, "WLWDL") >>)
        @@ ("2022-2023" :> <<
            MockStandingsRow(1, "Bayern Munich", "BAY", "bayern_munich", 34, 24, 6, 4, 78, 92, 38, 54, "WWWWL"),
            MockStandingsRow(2, "Borussia Dortmund", "BVB", "borussia_dortmund", 34, 22, 7, 5, 73, 84, 38, 46, "WLWWW"),
            MockStandingsRow(3, "RB Leipzig", "RBL", "rb_leipzig", 34, 22, 6, 6, 72, 64, 35, 29, "DWDWW"),
            MockStandingsRow(4, "Union Berlin", "FCU", "union_berlin", 34, 17, 13, 4, 64, 51, 33, 18, "DDWLW"),
            MockStandingsRow(5, "SC Freiburg", "SCF", "sc_freiburg", 34, 17, 10, 7, 61, 51, 40, 11, "WDWLW") >>)
      ))
    @@ ("FL1" :> (
        ("2024-2025" :> <<
            MockStandingsRow(1, "Paris Saint-Germain", "PSG", "psg", 34, 27, 6, 1, 87, 89, 35, 54, "WWDWW"),
            MockStandingsRow(2, "AS Monaco", "MON", "monaco", 34, 22, 9, 3, 75, 68, 34, 34, "WDWWD"),
            MockStandingsRow(3, "Marseille", "OM", "marseille", 34, 20, 8, 6, 68, 63, 38, 25, "WWLDW"),
            MockStandingsRow(4, "Lille", "LIL", "lille", 34, 18, 10, 6, 64, 54, 35, 19, "LWWDW"),
            MockStandingsRow(5, "Nice", "NIC", "nice", 34, 17, 11, 6, 62, 40, 25, 15, "DDWWD") >>)
        @@ ("2023-2024" :> <<
            MockStandingsRow(1, "Paris Saint-Germain", "PSG", "psg", 34, 26, 6, 2, 84, 89, 35, 54, "WWDWW"),
            MockStandingsRow(2, "AS Monaco", "MON", "monaco", 34, 21, 9, 4, 72, 68, 34, 34, "WDWWD"),
            MockStandingsRow(3, "Brest", "BRE", "brest", 34, 18, 11, 5, 65, 56, 38, 18, "DWDWL"),
            MockStandingsRow(4, "Lille", "LIL", "lille", 34, 18, 10, 6, 64, 54, 35, 19, "LWWDW"),
            MockStandingsRow(5, "Nice", "NIC", "nice", 34, 17, 11, 6, 62, 40, 25, 15, "DDWWD") >>)
        @@ ("2022-2023" :> <<
            MockStandingsRow(1, "Paris Saint-Germain", "PSG", "psg", 38, 29, 6, 3, 85, 89, 31, 58, "WWWWL"),
            MockStandingsRow(2, "RC Lens", "RCL", "rc_lens", 38, 25, 7, 6, 84, 68, 35, 33, "WLWWW"),
            MockStandingsRow(3, "Marseille", "OM", "marseille", 38, 24, 9, 5, 73, 63, 34, 29, "WWLDW"),
            MockStandingsRow(4, "Rennes", "SRE", "rennes", 38, 20, 8, 10, 68, 68, 40, 28, "WDWLW"),
            MockStandingsRow(5, "Lille", "LIL", "lille", 38, 19, 10, 9, 67, 54, 35, 19, "LWWDW") >>)
      ))

getMockStandingsData(competition, season) ==
    LET competitionType == IF competition \in {"CL", "EL"} THEN "GROUP_STAGE"
                           ELSE "REGULAR_SEASON"
        wanted == OrElse(season, "2024-2025")
        seasonData ==
            IF competition \notin DOMAIN mockTables THEN <<>>
            ELSE IF wanted \in DOMAIN mockTables[competition]
            THEN mockTables[competition][wanted]
            ELSE mockTables[competition]["2024-2025"]
    IN  [standings |-> << [stage |-> competitionType,
                           type |-> IF competitionType = "GROUP_STAGE" THEN "GROUP"
                                    ELSE "TOTAL",
                           table |-> seasonData] >>,
         competition |-> [name |-> getCompetitionName(competition), code |-> competition],
         season |-> OrElse(season, "2024-2025")]

fetchStandingsEndpoint(competition, season) ==
    "/lookuptable.php?l=" \o getLeagueId(competition)
        \o (IF Truthy(season) THEN "&s=" \o season ELSE "")

MapTableRow_GoalDifferenceOrZero(team, index) ==
    [position |-> ParseIntOr(Field(team, "intRank"), index + 1),
     team |-> [id |-> Field(team, "idTeam"),
               name |-> Field(team, "strTeam"),
               shortName |-> Field(team, "strTeam"),
               tla |-> Tla3(Field(team, "strTeam")),
               crest |-> OrElse(Field(team, "strBadge"), DefaultBadge)],
     playedGames |-> ParseIntOr(Field(team, "intPlayed"), 0),
     won |-> ParseIntOr(Field(team, "intWin"), 0),
     draw |-> ParseIntOr(Field(team, "intDraw"), 0),
     lost |-> ParseIntOr(Field(team, "intLoss"), 0),
     points |-> ParseIntOr(Field(team, "intPoints"), 0),
     goalsFor |-> ParseIntOr(Field(team, "intGoalsFor"), 0),
     goalsAgainst |-> ParseIntOr(Field(team, "intGoalsAgainst"), 0),
     goalDifference |-> ParseIntOr(Field(team, "intGoalDifference"), 0),
     form |-> OrElse(Field(team, "strForm"), "N/A")]

\* one row of data.table, at 0-based position `index`
MapTableRow(team, index) ==
    [position |-> ParseIntOr(Field(team, "intRank"), index + 1),
     team |-> [id |-> Field(team, "idTeam"),
               name |-> Field(team, "strTeam"),
               shortName |-> Field(team, "strTeam"),
               tla |-> Tla3(Field(team, "strTeam")),
               crest |-> OrElse(Field(team, "strBadge"), DefaultBadge)],
     playedGames |-> ParseIntOr(Field(team, "intPlayed"), 0),
     won |-> ParseIntOr(Field(team, "intWin"), 0),
     draw |-> ParseIntOr(Field(team, "intDraw"), 0),
     lost |-> ParseIntOr(Field(team, "intLoss"), 0),
     points |-> ParseIntOr(Field(team, "intPoints"), 0),
     goalsFor |-> ParseIntOr(Field(team, "intGoalsFor"), 0),
     goalsAgainst |-> ParseIntOr(Field(team, "intGoalsAgainst"), 0),
     goalDifference |->
        ParseIntOr(Field(team, "intGoalDifference"),
                   ParseIntOr(Field(team, "intGoalsFor"), 0)
                        - ParseIntOr(Field(team, "intGoalsAgainst"), 0)),
     form |-> OrElse(Field(team, "strForm"), "N/A")]

\* fetchStandings from the point where fetchData has resolved with `data`
fetchStandings(data, competition, season) ==
    IF IsNull(data) THEN Threw
    ELSE IF Has(data, "table")
    THEN Returned(
            [standings |-> << [stage |-> "REGULAR_SEASON",
                               type |-> "TOTAL",
                               table |-> [i \in 1..Len(data.table) |->
                                            MapTableRow(data.table[i], i - 1)]] >>,
             competition |-> [name |-> getCompetitionName(competition),
                              code |-> competition],
             season |-> OrElse(season, "2024-2025")])
    ELSE Returned(getMockStandingsData(competition, season))

-----------------------------------------------------------------------------
(* FootballAPI.fetchTeams and FootballAPI.getMockTeamsForCompetition *)

MockTeam(id, name, shortName, tla, crest, founded, venue, website, location) ==
    [id |-> id, name |-> name, shortName |-> shortName, tla |-> tla,
     crest |-> BadgeUrl \o crest \o ".png", founded |-> Num(founded), venue |-> venue,
     website |-> website, location |-> location]

mockTeams ==
    ("PL" :> <<
        MockTeam("133604", "Arsenal", "Arsenal", "ARS", "arsenal", 1886,
            "Emirates Stadium", "www.arsenal.com", "London, England"),
        MockTeam("133612", "Chelsea", "Chelsea", "CHE", "chelsea", 1905,
            "Stamford Bridge", "www.chelseafc.com", "London, England"),
        MockTeam("133602", "Liverpool", "Liverpool", "LIV", "liverpool", 1892,
            "Anfield", "www.liverpoolfc.com", "Liverpool, England"),
        MockTeam("133613", "Manchester City", "Man City", "MCI", "man_city", 1880,
            "Etihad Stadium", "www.mancity.com", "Manchester, England"),
        MockTeam("133614", "Manchester United", "Man United", "MUN", "man_united", 1878,
            "Old Trafford", "www.manutd.com", "Manchester, England"),
        MockTeam("133615", "Tottenham Hotspur", "Tottenham", "TOT", "tottenham", 1882,
            "Tottenham Hotspur Stadium", "www.tottenhamhotspur.com", "London, England"),
        MockTeam("133599", "Wolverhampton Wanderers", "Wolves", "WOL", "wolves", 1877,
            "Molineux Stadium", "www.wolves.co.uk", "Wolverhampton, England"),
        MockTeam("134355", "Brentford", "Brentford", "BRE", "brentford", 1889,
            "Brentford Community Stadium", "www.brentfordfc.com", "London, England"),
        MockTeam("133616", "Newcastle United", "Newcastle", "NEW", "newcastle", 1892,
            "St. James' Park", "www.nufc.co.uk", "Newcastle, England"),
        MockTeam("133617", "Aston Villa", "Aston Villa", "AVL", "aston_villa", 1874,
            "Villa Park", "www.avfc.co.uk", "Birmingham, England") >>)
    @@ ("PD" :> <<
        MockTeam("134301", "Real Madrid", "Real Madrid", "RMA", "real_madrid", 1902,
            "Santiago Bernabéu", "www.realmadrid.com", "Madrid, Spain"),
        MockTeam("134302", "Barcelona", "Barcelona", "BAR", "barcelona", 1899,
            "Camp Nou", "www.fcbarcelona.com", "Barcelona, Spain"),
        MockTeam("134303", "Atletico Madrid", "Atletico", "ATM", "atletico_madrid", 1903,
            "Wanda Metropolitano", "www.atleticodemadrid.com", "Madrid, Spain"),
        MockTeam("134304", "Sevilla", "Sevilla", "SEV", "sevilla", 1890,
            "Ramón Sánchez Pizjuán", "www.sevillafc.es", "Sevilla, Spain"),
        MockTeam("134305", "Valencia", "Valencia", "VAL", "valencia", 1919,
            "Mestalla", "www.valenciacf.com", "Valencia, Spain") >>)
    @@ ("SA" :> <<
        MockTeam("135301", "Inter Milan", "Inter", "INT", "inter_milan", 1908,
            "San Siro", "www.inter.it", "Milan, Italy"),
        MockTeam("135302", "AC Milan", "Milan", "MIL", "ac_milan", 1899,
            "San Siro", "www.acmilan.com", "Milan, Italy"),
        MockTeam("135303", "Juventus", "Juventus", "JUV", "juventus", 1897,
            "Allianz Stadium", "www.juventus.com", "Turin, Italy"),
        MockTeam("135304", "Napoli", "Napoli", "NAP", "napoli", 1926,
            "Stadio Diego Armando Maradona", "www.sscnapoli.it", "Naples, Italy"),
        MockTeam("135305", "AS Roma", "Roma", "ROM", "as_roma", 1927,
            "Stadio Olimpico", "www.asroma.com", "Rome, Italy") >>)
    @@ ("BL1" :> <<
        MockTeam("136301", "Bayern Munich", "Bayern", "BAY", "bayern_munich", 1900,
            "Allianz Arena", "www.fcbayern.com", "Munich, Germany"),
        MockTeam("136302", "Borussia Dortmund", "Dortmund", "BVB", "borussia_dortmund", 1909,
            "Signal Iduna Park", "www.bvb.de", "Dortmund, Germany"),
        MockTeam("136303", "RB Leipzig", "Leipzig", "RBL", "rb_leipzig", 2009,
            "Red Bull Arena", "www.rbleipzig.com", "Leipzig, Germany"),
        MockTeam("136304", "Bayer Leverkusen", "Leverkusen", "B04", "bayer_leverkusen", 1904,
            "BayArena", "www.bayer04.de", "Leverkusen, Germany"),
        MockTeam("136305", "Eintracht Frankfurt", "Frankfurt", "SGE", "eintracht_frankfurt", 1899,
            "Deutsche Bank Park", "www.eintracht.de", "Frankfurt, Germany") >>)
    @@ ("FL1" :> <<
        MockTeam("137301", "Paris Saint-Germain", "PSG", "PSG", "psg", 1970,
            "Parc des Princes", "www.psg.fr", "Paris, France"),
        MockTeam("137302", "AS Monaco", "Monaco", "MON", "monaco", 1924,
            "Stade Louis II", "www.asmonaco.com", "Monaco"),
        MockTeam("137303", "Marseille", "Marseille", "OM", "marseille", 1899,
            "Orange Vélodrome", "www.om.fr", "Marseille, France"),
        MockTeam("137304", "Lille", "Lille", "LIL", "lille", 1944,
            "Stade Pierre-Mauroy", "www.losc.fr", "Lille, France"),
        MockTeam("137305", "Nice", "Nice", "NIC", "nice", 1904,
            "Allianz Riviera", "www.ogcnice.com", "Nice, France") >>)

getMockTeamsForCompetition(competition) == Lookup(mockTeams, competition, mockTeams["PL"])

\* the three endpoints fetchTeams asks, in order
fetchTeamsEndpoints(competition, season) ==
    << "/search_all_teams.php?l=" \o getLeagueName(competition),
       "/lookuptable.php?l=" \o getLeagueId(competition)
            \o "&s=" \o OrElse(season, "2024-2025"),
       "/search_all_teams.php?s=Soccer&c=" \o getCountryForCompetition(competition) >>

\* parseInt(team.intFormedYear) || null
ParseIntOrNull(v) ==
    IF ParseInt(v).kind = "NaN" \/ ParseInt(v).val = 0 THEN NullNum ELSE ParseInt(v)

MapSearchTeam(team) ==
    [id |-> Field(team, "idTeam"),
     name |-> Field(team, "strTeam"),
     shortName |-> OrElse(Field(team, "strTeamShort"), Field(team, "strTeam")),
     tla |-> OrElse(Field(team, "strTeamShort"), Tla3(Field(team, "strTeam"))),
     crest |-> OrElse(Field(team, "strBadge"),
                      OrElse(Field(team, "strTeamBadge"), DefaultBadge)),
     founded |-> ParseIntOrNull(Field(team, "intFormedYear")),
     venue |-> OrElse(Field(team, "strStadium"), "Unknown Stadium"),
     website |-> OrElse(Field(team, "strWebsite"), ""),
     location |-> OrElse(Field(team, "strLocation"), OrElse(Field(team, "strCountry"), ""))]

MapTableTeam(team) ==
    [id |-> Field(team, "idTeam"),
     name |-> Field(team, "strTeam"),
     shortName |-> Field(team, "strTeam"),
     tla |-> Tla3(Field(team, "strTeam")),
     crest |-> OrElse(Field(team, "strBadge"), DefaultBadge),
     founded |-> NullNum,
     venue |-> "Unknown Stadium",
     website |-> "",
     location |-> ""]

\* the body of the loop for one endpoint: what its answer adds to allTeams.
\* A property read on a null body throws inside the try and is swallowed.
TeamsOf(data) ==
    IF IsNull(data) THEN <<>>
    ELSE IF Has(data, "teams") THEN [i \in 1..Len(data.teams) |-> MapSearchTeam(data.teams[i])]
    ELSE IF Has(data, "table") THEN [i \in 1..Len(data.table) |-> MapTableTeam(data.table[i])]
    ELSE <<>>

UniqueById_KeepsLast(allTeams) ==
    LET Keep(i) == \A j \in (i + 1)..Len(allTeams) : allTeams[j].id # allTeams[i].id
        RECURSIVE From(_)
        From(i) == IF i > Len(allTeams) THEN <<>>
                   ELSE (IF Keep(i) THEN <<allTeams[i]>> ELSE <<>>) \o From(i + 1)
    IN  From(1)

\* allTeams.filter((team, index, self) => index === self.findIndex(t => t.id === team.id))
UniqueById(allTeams) ==
    LET Keep(i) == \A j \in 1..(i - 1) : allTeams[j].id # allTeams[i].id
        RECURSIVE From(_)
        From(i) == IF i > Len(allTeams) THEN <<>>
                   ELSE (IF Keep(i) THEN <<allTeams[i]>> ELSE <<>>) \o From(i + 1)
    IN  From(1)

fetchTeamsFinish_NoTopUp(allTeams, competition) ==
    [teams |-> UniqueById(allTeams), count |-> Len(UniqueById(allTeams))]

\* fetchTeams after its loop over the endpoints
fetchTeamsFinish(allTeams, competition) ==
    LET uniqueTeams == UniqueById(allTeams)
        existingIds == {uniqueTeams[i].id : i \in 1..Len(uniqueTeams)}
        Missing(team) == team.id \notin existingIds
        topped == IF Len(uniqueTeams) < 10
                  THEN uniqueTeams \o SelectSeq(getMockTeamsForCompetition(competition), Missing)
                  ELSE uniqueTeams
    IN  [teams |-> topped, count |-> Len(topped)]

-----------------------------------------------------------------------------
(* FootballAPI.fetchLineup, fetchEventStats, fetchTimeline, fetchTopScorers *)

MockScorer(name, goals, team, nationality) ==
    [name |-> name, goals |-> goals, team |-> team, nationality |-> nationality]

mockScorers ==
    ("PL" :> (
        ("2024-2025" :> <<
            MockScorer("Erling Haaland", 14, "Manchester City", "Norway"),
            MockScorer("Mohamed Salah", 12, "Liverpool", "Egypt"),
            MockScorer("Cole Palmer", 11, "Chelsea", "England"),
            MockScorer("Alexander Isak", 9, "Newcastle United", "Sweden"),
            MockScorer("Chris Wood", 8, "Nottingham Forest", "New Zealand"),
            MockScorer("Bryan Mbeumo", 8, "Brentford", "Cameroon") >>)
        @@ ("2023-2024" :> <<
            MockScorer("Erling Haaland", 27, "Manchester City", "Norway"),
            MockScorer("Cole Palmer", 22, "Chelsea", "England"),
            MockScorer("Alexander Isak", 21, "Newcastle United", "Sweden"),
            MockScorer("Ollie Watkins", 19, "Aston Villa", "England"),
            MockScorer("Mohamed Salah", 18, "Liverpool", "Egypt"),
            MockScorer("Dominic Solanke", 18, "Bournemouth", "England") >>)
      ))
    @@ ("PD" :> (
        ("2024-2025" :> <<
            MockScorer("Robert Lewandowski", 16, "Barcelona", "Poland"),
            MockScorer("Kylian Mbappé", 11, "Real Madrid", "France"),
            MockScorer("Raphinha", 10, "Barcelona", "Brazil"),
            MockScorer("Ayoze Pérez", 8, "Villarreal", "Spain"),
            MockScorer("Vinícius Jr.", 8, "Real Madrid", "Brazil"),
            MockScorer("Antoine Griezmann", 7, "Atletico Madrid", "France") >>)
      ))
    @@ ("SA" :> (
        ("2024-2025" :> <<
            MockScorer("Marcus Thuram", 12, "Inter Milan", "France"),
            MockScorer("Mateo Retegui", 11, "Atalanta", "Italy"),
            MockScorer("Moise Kean", 9, "Fiorentina", "Italy"),
            MockScorer("Lautaro Martínez", 8, "Inter Milan", "Argentina"),
            MockScorer("Dusan Vlahovic", 8, "Juventus", "Serbia"),
            MockScorer("Romelu Lukaku", 7, "Napoli", "Belgium") >>)
      ))
    @@ ("BL1" :> (
        ("2024-2025" :> <<
            MockScorer("Harry Kane", 14, "Bayern Munich", "England"),
            MockScorer("Omar Marmoush", 13, "Eintracht Frankfurt", "Egypt"),
            MockScorer("Victor Boniface", 8, "Bayer Leverkusen", "Nigeria"),
            MockScorer("Serhou Guirassy", 7, "Borussia Dortmund", "Guinea"),
            MockScorer("Wout Weghorst", 6, "VfL Wolfsburg", "Netherlands"),
            MockScorer("Tim Kleindienst", 6, "Borussia Mönchengladbach", "Germany") >>)
      ))
    @@ ("FL1" :> (
        ("2024-2025" :> <<
            MockScorer("Bradley Barcola", 10, "Paris Saint-Germain", "France"),
            MockScorer("Mason Greenwood", 9, "Marseille", "England"),
            MockScorer("Folarin Balogun", 8, "AS Monaco", "USA"),
            MockScorer("Jonathan David", 8, "Lille", "Canada"),
            MockScorer("Georges Mikautadze", 7, "Lyon", "Georgia"),
            MockScorer("Ousmane Dembélé", 6, "Paris Saint-Germain", "France") >>)
      ))

\* getMockTopScorers falling back to PL's "2024-2025" list whenever the
\* competition or the season has no entry
getMockTopScorers_DefaultsToPL(competition, season) ==
    LET wanted == OrElse(season, "2024-2025") IN
    IF competition \in DOMAIN mockScorers /\ wanted \in DOMAIN mockScorers[competition]
    THEN mockScorers[competition][wanted]
    ELSE mockScorers["PL"]["2024-2025"]

\* mockScorers[competition] || mockScorers['PL'], then
\* competitionScorers[season || '2024-2025'] || competitionScorers['2024-2025'] || []
\* (a competition naming an inherited property selects a function, which has
\* no season of its own)
getMockTopScorers(competition, season) ==
    LET wanted == OrElse(season, "2024-2025") IN
    IF competition \notin DOMAIN mockScorers /\ competition \in ObjectPrototypeKeys
    THEN (IF wanted \in ObjectPrototypeKeys THEN Inherited(wanted) ELSE <<>>)
    ELSE LET competitionScorers == Lookup(mockScorers, competition, mockScorers["PL"])
         IN  Lookup(competitionScorers, wanted, competitionScorers["2024-2025"])

\* the endpoint keys of the four calls
fetchLineupEndpoint(eventId) == "/lookuplineup.php?id=" \o eventId

fetchEventStatsEndpoint(eventId) == "/lookupeventstats.php?id=" \o eventId

fetchTimelineEndpoint(eventId) == "/lookuptimeline.php?id=" \o eventId

fetchTopScorersEndpoint(competition, season) ==
    "/lookuptopscorers.php?l=" \o getLeagueId(competition)
        \o "&s=" \o OrElse(season, "2024-2025")

\* return data.lineup ? data : { lineup: [] }
fetchLineup(data) ==
    IF IsNull(data) THEN Threw
    ELSE IF Has(data, "lineup") THEN Returned(data)
    ELSE Returned([lineup |-> <<>>])

\* return data.eventstats ? data : { eventstats: [] }
fetchEventStats(data) ==
    IF IsNull(data) THEN Threw
    ELSE IF Has(data, "eventstats") THEN Returned(data)
    ELSE Returned([eventstats |-> <<>>])

\* return data.timeline ? data : { timeline: [] }
fetchTimeline(data) ==
    IF IsNull(data) THEN Threw
    ELSE IF Has(data, "timeline") THEN Returned(data)
    ELSE Returned([timeline |-> <<>>])

MapScorer(scorer) ==
    [name |-> Field(scorer, "strPlayer"),
     goals |-> ParseIntOr(Field(scorer, "intGoals"), 0),
     team |-> Field(scorer, "strTeam"),
     nationality |-> Field(scorer, "strNationality")]

\* the scorer list of the response mapped row by row, else the mock scorers
fetchTopScorers(data, competition, season) ==
    IF IsNull(data) THEN Threw
    ELSE IF Has(data, "topscorers")
    THEN Returned([i \in 1..Len(data.topscorers) |-> MapScorer(data.topscorers[i])])
    ELSE Returned(getMockTopScorers(competition, season))

\* the calls, named by their method: the four above, the two match methods
\* and fetchData itself
DirectFns ==
    {"fetchLineup", "fetchEventStats", "fetchTimeline", "fetchTopScorers",
     "fetchMatches", "fetchCompetitionMatches", "fetchData"}

\* a call made on the FootballAPI itself: its arguments (arg is the event
\* identifier, or the endpoint of fetchData), where its fetchData call stands,
\* what fetchData gave it and what it settled with
IdleDirect ==
    [pc |-> "idle", fn |-> "", competition |-> "", season |-> Undefined,
     arg |-> "", endpoint |-> "", pending |-> JsNull, fetched |-> JsNull,
     out |-> [threw |-> FALSE, value |-> JsNull]]

DirectEndpoint(fn, competition, season, arg) ==
    CASE fn = "fetchLineup" -> fetchLineupEndpoint(arg)
      [] fn = "fetchEventStats" -> fetchEventStatsEndpoint(arg)
      [] fn = "fetchTimeline" -> fetchTimelineEndpoint(arg)
      [] fn = "fetchTopScorers" -> fetchTopScorersEndpoint(competition, season)
      [] fn = "fetchMatches" -> fetchMatchesEndpoint
      [] fn = "fetchCompetitionMatches" -> fetchCompetitionMatchesEndpoint(competition)
      [] fn = "fetchData" -> arg

\* the part of the method after its await
DirectFinish(d, data) ==
    CASE d.fn = "fetchLineup" -> fetchLineup(data)
      [] d.fn = "fetchEventStats" -> fetchEventStats(data)
      [] d.fn = "fetchTimeline" -> fetchTimeline(data)
      [] d.fn = "fetchTopScorers" -> fetchTopScorers(data, d.competition, d.season)
      [] d.fn = "fetchMatches" -> fetchMatches(data, d.season)
      [] d.fn = "fetchCompetitionMatches" ->
            fetchCompetitionMatches(data, d.competition, d.season)
      [] d.fn = "fetchData" -> Returned(data)

-----------------------------------------------------------------------------
(* ContactForm: the form state and handleSubmit *)

WhiteSpace == {" ", "\t", "\n"}

\* String.prototype.trim
RECURSIVE Trim(_)
Trim(s) ==
    IF Len(s) = 0 THEN ""
    ELSE IF SubSeq(s, 1, 1) \in WhiteSpace THEN Trim(SubSeq(s, 2, Len(s)))
    ELSE IF SubSeq(s, Len(s), Len(s)) \in WhiteSpace THEN Trim(SubSeq(s, 1, Len(s) - 1))
    ELSE s

\* useState({ name: '', email: '', subject: '', message: '' })
EmptyFormData == [name |-> "", email |-> "", subject |-> "", message |-> ""]

FormFields == DOMAIN EmptyFormData

\* the first check of handleSubmit passes: no field is blank once trimmed
AllFilled(formData) == \A f \in FormFields : Trim(formData[f]) # ""

Validated_NoAtCheck(formData) == AllFilled(formData)

\* both checks of handleSubmit pass
Validated(formData) == AllFilled(formData) /\ Includes(formData.email, "@")

\* the toast handleSubmit shows when a check fails
ValidationToast(formData) ==
    IF ~AllFilled(formData)
    THEN [kind |-> "error", text |-> "Please fill in all required fields."]
    ELSE [kind |-> "error", text |-> "Please enter a valid email address."]

\* templateParams
TemplateParams(formData) ==
    [from_name |-> formData.name, from_email |-> formData.email,
     subject |-> formData.subject, message |-> formData.message,
     to_email |-> "georgiogelias@gmail.com"]

\* the mailto link of the fallback, by the values it is built from (each is
\* passed through encodeURIComponent)
MailtoLink(formData) ==
    [to |-> "georgiogelias@gmail.com",
     subject |-> "Footballytics Contact: " \o formData.subject,
     name |-> formData.name, email |-> formData.email, message |-> formData.message]

\* the form as mounted: formData and isSubmitting are the React state,
\* `submitted` the formData of the handleSubmit call awaiting emailjs.send,
\* `sends` the calls of emailjs.send, `opened` the links given to
\* window.open, `toasts` the toasts shown, `made` the handleSubmit calls
IdleForm ==
    [formData |-> EmptyFormData, isSubmitting |-> FALSE, pc |-> "idle",
     submitted |-> EmptyFormData, sends |-> <<>>, opened |-> <<>>, toasts |-> <<>>,
     made |-> 0]

handleSubmitCatch_ResetsForm(f) ==
    [f EXCEPT !.pc = "idle", !.isSubmitting = FALSE, !.formData = EmptyFormData,
              !.opened = Append(@, MailtoLink(f.submitted)),
              !.toasts = Append(@, [kind |-> "error",
                    text |-> "Direct email failed. Opening your email client as backup."])]

\* handleSubmit from the rejection of emailjs.send: the catch block, then finally
handleSubmitCatch(f) ==
    [f EXCEPT !.pc = "idle", !.isSubmitting = FALSE,
              !.opened = Append(@, MailtoLink(f.submitted)),
              !.toasts = Append(@, [kind |-> "error",
                    text |-> "Direct email failed. Opening your email client as backup."])]

\* handleSubmit from the fulfilment of emailjs.send: the rest of the try
\* block, then finally
handleSubmitSent(f) ==
    [f EXCEPT !.pc = "idle", !.isSubmitting = FALSE, !.formData = EmptyFormData,
              !.toasts = Append(@, [kind |-> "success",
                    text |-> "Message sent successfully! We'll get back to you within 24 hours."])]

-----------------------------------------------------------------------------
(* The upstream provider *)

\* the endpoint keys requested on the FootballAPI
Endpoints ==
    { "/eventsnextleague.php?id=4328",
      "/lookuplineup.php?id=1" }

\* the endpoint key requested again and again
RepeatKey == "/lookuptable.php?l=4328"

EmptyBody == [strNote |-> "none"]

LiveEvent(id, home, away, hs, as, status, season, round) ==
    [idEvent |-> id, idHomeTeam |-> "h" \o id, idAwayTeam |-> "a" \o id,
     strHomeTeam |-> home, strAwayTeam |-> away,
     intHomeScore |-> hs, intAwayScore |-> as, dateEvent |-> "2025-01-04",
     strStatus |-> status, strSeason |-> season, intRound |-> round]

LiveEventsBody ==
    [events |-> <<
        LiveEvent("901", "Everton", "Fulham", "1", "0", "Match Finished", "2023-2024", "20"),
        LiveEvent("902", "Leeds", "Burnley", "2", "2", "2H", "2024-2025", "21"),
        LiveEvent("903", "Watford", "Stoke", NoScore, NoScore, "Not Started", "2024-2025", "21") >>]

LiveTableBody ==
    [table |-> <<
        [idTeam |-> "133604", strTeam |-> "Arsenal", intRank |-> "1", intPlayed |-> "20",
         intWin |-> "14", intDraw |-> "4", intLoss |-> "2", intGoalsFor |-> "40",
         intGoalsAgainst |-> "18", intGoalDifference |-> "22", intPoints |-> "46",
         strForm |-> "WWDWW"],
        [idTeam |-> "133635", strTeam |-> "Fulham", intPlayed |-> "20",
         intWin |-> "7", intDraw |-> "6", intLoss |-> "7", intGoalsFor |-> "25",
         intGoalsAgainst |-> "27", intPoints |-> "27"] >>]

LiveTeamsBody ==
    [teams |-> <<
        [idTeam |-> "133604", strTeam |-> "Arsenal", strTeamShort |-> "ARS",
         strBadge |-> BadgeUrl \o "arsenal-live.png", intFormedYear |-> "1886",
         strStadium |-> "Emirates Stadium", strCountry |-> "England"],
        [idTeam |-> "133635", strTeam |-> "Fulham", strTeamBadge |-> BadgeUrl \o "fulham.png",
         intFormedYear |-> "0"] >>]

\* a table without rows
EmptyTableBody == [table |-> <<>>]

\* a table whose rows lack fields, or carry fields that are no numbers
SparseTableBody ==
    [table |-> <<
        [idTeam |-> "133610", strTeam |-> "Everton", intGoalsFor |-> "3"],
        [idTeam |-> "133632", strTeam |-> "Crystal Palace", intGoalsAgainst |-> "5",
         intGoalsFor |-> "n/a"],
        [idTeam |-> "134777", strTeam |-> "Bournemouth", intGoalsFor |-> "12",
         intGoalsAgainst |-> "30", intGoalDifference |-> "-18"],
        [idTeam |-> "133619", strTeam |-> "Brighton", intGoalsFor |-> "7",
         intGoalsAgainst |-> "7", intGoalDifference |-> "0"] >>]

\* the JSON bodies a 2xx response to `endpoint` may carry: JSON null, or a
\* body of the shape the provider documents for the endpoint
ServerBodies(endpoint) ==
    IF Includes(endpoint, "search_all_teams") THEN {JsNull, LiveTeamsBody}
    ELSE IF Includes(endpoint, "lookuptable") THEN {JsNull, LiveTableBody}
    ELSE IF Includes(endpoint, "events") THEN {JsNull, LiveEventsBody}
    ELSE {JsNull, EmptyBody}

-----------------------------------------------------------------------------
(* FootballAPI.fetchData *)

CacheHit_Inclusive(endpoint) ==
    /\ endpoint \in DOMAIN cache
    /\ (now - cache[endpoint].timestamp) <= cacheExpiry

CacheHit_NeverExpires(endpoint) == endpoint \in DOMAIN cache

\* const cached = this.cache.get(cacheKey);
\* if (cached && (Date.now() - cached.timestamp) < this.cacheExpiry)
CacheHit(endpoint) ==
    /\ endpoint \in DOMAIN cache
    /\ (now - cache[endpoint].timestamp) < cacheExpiry

\* a cache of one entry: storing a key drops every other key
CacheSet_EvictsOthers(endpoint, data) ==
    [k \in {endpoint} |-> [data |-> data, timestamp |-> now]]

CacheSet_KeepsFirst(endpoint, data) ==
    IF endpoint \in DOMAIN cache
    THEN cache
    ELSE [k \in (DOMAIN cache) \cup {endpoint} |->
            IF k = endpoint THEN [data |-> data, timestamp |-> now] ELSE cache[k]]

\* this.cache.set(cacheKey, { data, timestamp: Date.now() })
CacheSet(endpoint, data) ==
    [k \in (DOMAIN cache) \cup {endpoint} |->
        IF k = endpoint THEN [data |-> data, timestamp |-> now] ELSE cache[k]]

FetchDataCatch_Rethrows(endpoint) ==
    [pc |-> "threw", result |-> JsNull, cache |-> cache]

FetchDataCatch_CachesMock(endpoint) ==
    [pc |-> "returned", result |-> getMockData(endpoint),
     cache |-> [k \in (DOMAIN cache) \cup {endpoint} |->
                  IF k = endpoint
                  THEN [data |-> getMockData(endpoint), timestamp |-> now]
                  ELSE cache[k]]]

\* the catch block: return this.getMockData(endpoint); the cache is not written
FetchDataCatch(endpoint) ==
    [pc |-> "returned", result |-> getMockData(endpoint), cache |-> cache]

\* one of the two feeds of fetchAnalyticsData: where its fetchData call
\* stands, and what the normalizer made of the answer
IdleFeed == [pc |-> "idle", endpoint |-> "", pending |-> JsNull, fetched |-> JsNull, out |-> [threw |-> FALSE, value |-> JsNull]]

\* no fetchAnalyticsData call has been made
IdleAnalytics ==
    [pc |-> "idle", made |-> 0, competition |-> "", season |-> Undefined,
     standings |-> IdleFeed, matches |-> IdleFeed,
     settled |-> "pending", result |-> JsNull]

\* the ways the live call can fail
Failures == {"network_error", "bad_status", "bad_json"}

Idle == [pc |-> "idle", endpoint |-> "", startedAt |-> 0, outcome |-> "none",
         result |-> JsNull]

\* a FootballAPI just constructed (this.cache = new Map()), no call made on it
IdlePeer == [cache |-> <<>>, call |-> Idle, made |-> 0]

Callers == DOMAIN calls

Caught_StoresSubstitute(c, failure) ==
    LET after == FetchDataCatch(calls[c].endpoint) IN
    /\ calls' = [calls EXCEPT ![c] =
            [pc |-> after.pc, endpoint |-> calls[c].endpoint,
             startedAt |-> calls[c].startedAt, outcome |-> failure,
             result |-> after.result]]
    /\ cache' = CacheSet(calls[c].endpoint, after.result)

\* a failure of the live call of c reaches the catch block
Caught(c, failure) ==
    LET after == FetchDataCatch(calls[c].endpoint) IN
    /\ calls' = [calls EXCEPT ![c] =
            [pc |-> after.pc, endpoint |-> calls[c].endpoint,
             startedAt |-> calls[c].startedAt, outcome |-> failure,
             result |-> after.result]]
    /\ cache' = after.cache

\* fetchData(endpoint) up to its first await
FetchDataCall(c, endpoint) ==
    /\ calls[c].pc = "idle"
    /\ IF c = 1 THEN TRUE ELSE calls[c - 1].pc # "idle"
    /\ IF CacheHit(endpoint)
       THEN /\ calls' = [calls EXCEPT ![c] =
                    [pc |-> "returned", endpoint |-> endpoint, startedAt |-> now,
                     outcome |-> "hit", result |-> cache[endpoint].data]]
            /\ UNCHANGED http
       ELSE /\ calls' = [calls EXCEPT ![c] =
                    [pc |-> "fetch", endpoint |-> endpoint, startedAt |-> now,
                     outcome |-> "none", result |-> JsNull]]
            /\ http' = [http EXCEPT ![endpoint] = @ + 1]
    /\ UNCHANGED <<cache, now, ticks, tabVars, pageVars>>

\* fetch() rejects: the catch block runs
FetchRejects(c) ==
    /\ calls[c].pc = "fetch"
    /\ Caught(c, "network_error")
    /\ UNCHANGED <<now, ticks, http, tabVars, pageVars>>

\* fetch() resolves with response.ok false: throw inside the try, the catch block runs
FetchNotOk(c) ==
    /\ calls[c].pc = "fetch"
    /\ Caught(c, "bad_status")
    /\ UNCHANGED <<now, ticks, http, tabVars, pageVars>>

\* fetch() resolves with response.ok true: await response.json()
FetchOk(c) ==
    /\ calls[c].pc = "fetch"
    /\ calls' = [calls EXCEPT ![c].pc = "json"]
    /\ UNCHANGED <<cache, now, ticks, http, tabVars, pageVars>>

\* response.json() rejects: the catch block runs
JsonRejects(c) ==
    /\ calls[c].pc = "json"
    /\ Caught(c, "bad_json")
    /\ UNCHANGED <<now, ticks, http, tabVars, pageVars>>

\* response.json() resolves: cache.set and return data
JsonResolves(c, data) ==
    /\ calls[c].pc = "json"
    /\ cache' = CacheSet(calls[c].endpoint, data)
    /\ calls' = [calls EXCEPT ![c] =
            [pc |-> "returned", endpoint |-> calls[c].endpoint,
             startedAt |-> calls[c].startedAt, outcome |-> "ok", result |-> data]]
    /\ UNCHANGED <<now, ticks, http, tabVars, pageVars>>

\* the clock advances
TickStep == cacheExpiry \div 2

Tick ==
    /\ ticks < MaxTicks
    /\ now' = now + TickStep
    /\ ticks' = ticks + 1
    /\ UNCHANGED <<cache, http, calls, tabVars, pageVars>>

InitCalls(n) ==
    /\ cache = <<>>
    /\ now = 0
    /\ ticks = 0
    /\ http = [e \in Endpoints \cup {RepeatKey} |-> 0]
    /\ calls = [c \in 1..n |-> Idle]
    /\ thisActiveTab = ""
    /\ activeTab = ""
    /\ isLoading = FALSE
    /\ tabData = JsNull
    /\ tabs = <<>>
    /\ analytics = IdleAnalytics
    /\ peer = IdlePeer
    /\ direct = IdleDirect
    /\ contactForm = IdleForm

\* independent callers, several endpoint keys
Init == InitCalls(MaxCalls)

Next ==
    \/ \E c \in Callers, e \in Endpoints : FetchDataCall(c, e)
    \/ \E c \in Callers : FetchRejects(c)
    \/ \E c \in Callers : FetchNotOk(c)
    \/ \E c \in Callers : FetchOk(c)
    \/ \E c \in Callers : JsonRejects(c)
    \/ \E c \in Callers : \E d \in ServerBodies(calls[c].endpoint) : JsonResolves(c, d)
    \/ Tick

Spec == Init /\ [][Next]_vars

\* repeated calls for one endpoint key
InitRepeat == InitCalls(MaxRepeat)

NextRepeat ==
    \/ \E c \in Callers : FetchDataCall(c, RepeatKey)
    \/ \E c \in Callers : FetchRejects(c)
    \/ \E c \in Callers : FetchNotOk(c)
    \/ \E c \in Callers : FetchOk(c)
    \/ \E c \in Callers : JsonRejects(c)
    \/ \E c \in Callers : \E d \in ServerBodies(calls[c].endpoint) : JsonResolves(c, d)
    \/ Tick

SpecRepeat == InitRepeat /\ [][NextRepeat]_vars

-----------------------------------------------------------------------------
(* A second FootballAPI instance *)

\* Each TabManager constructs its own FootballAPI (this.api = new
\* FootballAPI()), and each FootballAPI its own Map.  The instance driven by
\* `calls` reads and writes `cache`; the second one reads and writes the map
\* below.  Both reach the same provider, so `http` counts the live calls of
\* both.

peerCache_Shared == cache

\* this.cache of the second instance
peerCache == peer.cache

\* the cache test of fetchData, on the second instance
PeerCacheHit(endpoint) ==
    /\ endpoint \in DOMAIN peerCache
    /\ (now - peerCache[endpoint].timestamp) < cacheExpiry

\* fetchData(endpoint) on the second instance, up to its first await
PeerFetchDataCall(endpoint) ==
    /\ peer.call.pc \in {"idle", "returned"}
    /\ peer.made < MaxPeerCalls
    /\ IF PeerCacheHit(endpoint)
       THEN /\ peer' = [peer EXCEPT !.made = @ + 1, !.call =
                    [pc |-> "returned", endpoint |-> endpoint, startedAt |-> now,
                     outcome |-> "hit", result |-> peerCache[endpoint].data]]
            /\ UNCHANGED http
       ELSE /\ peer' = [peer EXCEPT !.made = @ + 1, !.call =
                    [pc |-> "fetch", endpoint |-> endpoint, startedAt |-> now,
                     outcome |-> "none", result |-> JsNull]]
            /\ http' = [http EXCEPT ![endpoint] = @ + 1]
    /\ UNCHANGED <<cache, now, ticks, calls, tabVars, analytics, direct, contactForm>>

\* the live call of the second instance fails: its catch block runs
PeerFetchFails ==
    /\ peer.call.pc = "fetch"
    /\ peer' = [peer EXCEPT !.call =
            [pc |-> "returned", endpoint |-> peer.call.endpoint,
             startedAt |-> peer.call.startedAt, outcome |-> "network_error",
             result |-> getMockData(peer.call.endpoint)]]
    /\ UNCHANGED <<cache, now, ticks, http, calls, tabVars, analytics, direct, contactForm>>

\* the live call of the second instance succeeds: this.cache.set and return data
PeerFetchSucceeds(data) ==
    /\ peer.call.pc = "fetch"
    /\ peer' = [peer EXCEPT
            !.cache = [k \in (DOMAIN peer.cache) \cup {peer.call.endpoint} |->
                        IF k = peer.call.endpoint
                        THEN [data |-> data, timestamp |-> now]
                        ELSE peer.cache[k]],
            !.call = [pc |-> "returned", endpoint |-> peer.call.endpoint,
                      startedAt |-> peer.call.startedAt, outcome |-> "ok",
                      result |-> data]]
    /\ UNCHANGED <<cache, now, ticks, http, calls, tabVars, analytics, direct, contactForm>>

\* two instances asked for the same key
NextPeers ==
    \/ \E c \in Callers : FetchDataCall(c, RepeatKey)
    \/ \E c \in Callers : FetchRejects(c)
    \/ \E c \in Callers : FetchOk(c)
    \/ \E c \in Callers : \E d \in ServerBodies(calls[c].endpoint) : JsonResolves(c, d)
    \/ PeerFetchDataCall(RepeatKey)
    \/ PeerFetchFails
    \/ \E d \in ServerBodies(peer.call.endpoint) : PeerFetchSucceeds(d)
    \/ Tick

SpecPeers == InitCalls(1) /\ [][NextPeers]_vars

-----------------------------------------------------------------------------
(* TabManager: the loaders *)

KnownTabs == {"live-matches", "league-tables", "team-stats", "recent-results"}

IsLive(match) == match.status = "IN_PLAY" \/ match.status = "LIVE"

IsFinished(match) == match.status = "FINISHED"

loadLiveMatchesAfter_Unfiltered(data) ==
    IF Has(data, "matches") THEN data
    ELSE [matches |-> <<>>, message |-> "No live matches at the moment"]

loadLiveMatchesAfter_OnlyLive(data) ==
    IF Has(data, "matches")
    THEN [matches |-> SelectSeq(data.matches, IsLive),
          message |-> "No live matches at the moment - showing recent matches"]
    ELSE [matches |-> <<>>, message |-> "No live matches at the moment"]

\* loadLiveMatches from the point where fetchMatches has resolved with `data`
loadLiveMatchesAfter(data) ==
    IF Has(data, "matches")
    THEN LET liveMatches == SelectSeq(data.matches, IsLive) IN
         IF Len(liveMatches) = 0
         THEN [matches |-> data.matches,
               message |-> "No live matches at the moment - showing recent matches"]
         ELSE [data EXCEPT !.matches = liveMatches]
    ELSE [matches |-> <<>>, message |-> "No live matches at the moment"]

loadRecentResultsAfter_Unfiltered(data) == data

\* loadRecentResults from the point where fetchCompetitionMatches has resolved with `data`
loadRecentResultsAfter(data) ==
    IF Has(data, "matches")
    THEN [data EXCEPT !.matches = SelectSeq(data.matches, IsFinished)]
    ELSE data

\* the endpoint key of the first fetchData call a tab's loader makes
FirstEndpoint(tabId, competition, season) ==
    CASE tabId = "live-matches" -> fetchMatchesEndpoint
      [] tabId = "league-tables" -> fetchStandingsEndpoint(competition, season)
      [] tabId = "team-stats" -> fetchTeamsEndpoints(competition, season)[1]
      [] tabId = "recent-results" -> fetchCompetitionMatchesEndpoint(competition)

Load_TeamsRethrows(t, data) ==
    CASE t.tabId = "live-matches" ->
            LET r == fetchMatches(data, t.season) IN
            IF r.threw THEN Threw ELSE Returned(loadLiveMatchesAfter(r.value))
      [] t.tabId = "league-tables" ->
            fetchStandings(data, t.competition, t.season)
      [] t.tabId = "team-stats" ->
            IF IsNull(data) THEN Threw
            ELSE Returned(fetchTeamsFinish(t.allTeams \o TeamsOf(data), t.competition))
      [] t.tabId = "recent-results" ->
            LET r == fetchCompetitionMatches(data, t.competition, t.season) IN
            IF r.threw THEN Threw ELSE Returned(loadRecentResultsAfter(r.value))

\* what the loader of call t settles with once its last fetchData call has
\* resolved with `data`: a returned value, or a throw
Load(t, data) ==
    CASE t.tabId = "live-matches" ->
            LET r == fetchMatches(data, t.season) IN
            IF r.threw THEN Threw ELSE Returned(loadLiveMatchesAfter(r.value))
      [] t.tabId = "league-tables" ->
            fetchStandings(data, t.competition, t.season)
      [] t.tabId = "team-stats" ->
            Returned(fetchTeamsFinish(t.allTeams \o TeamsOf(data), t.competition))
      [] t.tabId = "recent-results" ->
            LET r == fetchCompetitionMatches(data, t.competition, t.season) IN
            IF r.threw THEN Threw ELSE Returned(loadRecentResultsAfter(r.value))

-----------------------------------------------------------------------------
(* TabManager.switchTab *)

\* what one call does, in program order
SetActiveTabEv(tabId) == [ev |-> "setActiveTab", tab |-> tabId]

SetLoadingEv(loading) == [ev |-> "setLoading", loading |-> loading]

SetTabDataEv(data) == [ev |-> "setTabData", data |-> data]

CacheGetEv(endpoint) == [ev |-> "cache.get", key |-> endpoint]

FetchEv(endpoint) == [ev |-> "fetch", key |-> endpoint]

getTabDisplayName_Raw(tabId) == tabId

getTabDisplayName(tabId) ==
    Lookup(("live-matches" :> "Live matches") @@ ("league-tables" :> "League standings") @@
           ("team-stats" :> "Teams information") @@ ("recent-results" :> "Recent results"),
           tabId, "Data")

showSuccessNotification(tabId) ==
    [ev |-> "toast",
     title |-> "Data Loaded Successfully",
     description |-> getTabDisplayName(tabId) \o " loaded from TheSportsDB API.",
     variant |-> "default"]

ErrorToast ==
    [ev |-> "toast",
     title |-> "Unable to load sports data",
     description |-> "There was an issue loading data from the sports API. Please try again.",
     variant |-> "destructive"]

ErrorPayload ==
    [error |-> TRUE,
     errorMessage |-> "Failed to load data from TheSportsDB API",
     userFriendlyMessage |-> "Unable to connect to sports data service. This may be due to API access restrictions or network issues.",
     matches |-> <<>>,
     teams |-> <<>>,
     standings |-> <<>>]

handleTabError_Rethrows == [events |-> <<>>, settled |-> "rejected"]

\* the catch block of switchTab: the error is consumed there
handleTabError ==
    [events |-> <<ErrorToast, SetTabDataEv(ErrorPayload)>>, settled |-> "resolved"]

UnknownTabData == [error |-> TRUE, message |-> "Unknown tab selected"]

switchTabDefault_Throws == Threw

\* the default branch of the switch: a value is assigned, nothing is thrown
switchTabDefault == Returned(UnknownTabData)

switchTabEntry_NoLoading(tabId) == <<SetActiveTabEv(tabId)>>

\* switchTab up to its try block
switchTabEntry(tabId) == <<SetActiveTabEv(tabId), SetLoadingEv(TRUE)>>

\* a call that makes its tab the active one again when its load has settled
switchTabTail_ActivatesAgain(tabId, loaded) ==
    IF loaded.threw
    THEN [events |-> <<SetActiveTabEv(tabId)>> \o handleTabError.events \o <<SetLoadingEv(FALSE)>>,
          settled |-> handleTabError.settled]
    ELSE [events |-> <<SetActiveTabEv(tabId), SetTabDataEv(loaded.value),
                       showSuccessNotification(tabId), SetLoadingEv(FALSE)>>,
          settled |-> "resolved"]

switchTabTail_NoFinally(tabId, loaded) ==
    IF loaded.threw
    THEN [events |-> handleTabError.events, settled |-> handleTabError.settled]
    ELSE [events |-> <<SetTabDataEv(loaded.value), showSuccessNotification(tabId),
                       SetLoadingEv(FALSE)>>,
          settled |-> "resolved"]

\* switchTab from the point where the dispatched load has settled with `loaded`
\* (or, for an unknown tab, from the default branch of the switch)
switchTabTail(tabId, loaded) ==
    IF loaded.threw
    THEN [events |-> handleTabError.events \o <<SetLoadingEv(FALSE)>>,
          settled |-> handleTabError.settled]
    ELSE [events |-> <<SetTabDataEv(loaded.value), showSuccessNotification(tabId),
                       SetLoadingEv(FALSE)>>,
          settled |-> "resolved"]

\* the argument of the last call of a setter among `events`, if there is one
LastOf(events, kind, field, current) ==
    LET at == {i \in 1..Len(events) : events[i].ev = kind} IN
    IF at = {} THEN current
    ELSE events[CHOOSE i \in at : \A j \in at : j <= i][field]

\* the React state after the setters among `events` have been called
Emit(events) ==
    /\ activeTab' = LastOf(events, "setActiveTab", "tab", activeTab)
    /\ isLoading' = LastOf(events, "setLoading", "loading", isLoading)
    /\ tabData' = LastOf(events, "setTabData", "data", tabData)

NotLoaded == [threw |-> FALSE, value |-> JsNull]

IdleSwitch ==
    [pc |-> "idle", tabId |-> "", competition |-> "", season |-> Undefined,
     step |-> 0, endpoint |-> "", allTeams |-> <<>>, pending |-> JsNull,
     fetched |-> <<>>, loaded |-> NotLoaded, settled |-> "pending", trace |-> <<>>]

Switches == DOMAIN tabs

\* this.fetchData(endpoint) up to the caller's await: on a fresh cache entry
\* the call has already returned and the caller resumes in a microtask
FetchDataStart(endpoint) ==
    IF CacheHit(endpoint)
    THEN [pc |-> "resume", events |-> <<CacheGetEv(endpoint)>>,
          pending |-> cache[endpoint].data, live |-> FALSE]
    ELSE [pc |-> "fetch", events |-> <<CacheGetEv(endpoint), FetchEv(endpoint)>>,
          pending |-> JsNull, live |-> TRUE]

\* switchTab(tabId, competition, season) up to its first await; with an unknown
\* tabId there is no await and the call runs to its end
SwitchTab(s, tabId, competition, season) ==
    /\ tabs[s].pc = "idle"
    /\ IF s = 1 THEN TRUE ELSE tabs[s - 1].pc # "idle"
    /\ LET entry == switchTabEntry(tabId) IN
       IF tabId \notin KnownTabs
       THEN LET tail == switchTabTail(tabId, switchTabDefault) IN
            /\ tabs' = [tabs EXCEPT ![s] =
                    [IdleSwitch EXCEPT !.pc = "done", !.tabId = tabId,
                        !.competition = competition, !.season = season,
                        !.loaded = switchTabDefault,
                        !.settled = tail.settled,
                        !.trace = entry \o tail.events]]
            /\ Emit(entry \o tail.events)
            /\ UNCHANGED http
       ELSE LET endpoint == FirstEndpoint(tabId, competition, season)
                start == FetchDataStart(endpoint) IN
            /\ tabs' = [tabs EXCEPT ![s] =
                    [IdleSwitch EXCEPT !.pc = start.pc, !.tabId = tabId,
                        !.competition = competition, !.season = season,
                        !.step = 1, !.endpoint = endpoint,
                        !.pending = start.pending,
                        !.trace = entry \o start.events]]
            /\ Emit(entry \o start.events)
            /\ http' = IF start.live THEN [http EXCEPT ![endpoint] = @ + 1] ELSE http
    /\ UNCHANGED <<cache, now, ticks, calls, thisActiveTab, pageVars>>

\* call s resumes after `await this.fetchData(...)` has resolved with `data`:
\* fetchTeams goes on to its next endpoint (a different key from the one just
\* answered), every other loader settles and switchTab runs to its end
Resumed_CancelsSuperseded(s, data) ==
    LET t == tabs[s]
        loaded == Load(t, data)
        tail == switchTabTail(t.tabId, loaded)
        superseded == \E u \in Switches : u > s /\ tabs[u].pc # "idle" IN
    /\ tabs' = [tabs EXCEPT ![s] =
            [t EXCEPT !.pc = "done", !.pending = JsNull,
                !.fetched = Append(t.fetched, data),
                !.loaded = loaded, !.settled = tail.settled,
                !.trace = IF superseded THEN t.trace ELSE t.trace \o tail.events]]
    /\ IF superseded THEN UNCHANGED <<activeTab, isLoading, tabData>> ELSE Emit(tail.events)
    /\ UNCHANGED http

Resumed(s, data) ==
    LET t == tabs[s] IN
    IF t.tabId = "team-stats" /\ t.step < Len(fetchTeamsEndpoints(t.competition, t.season))
    THEN LET endpoint == fetchTeamsEndpoints(t.competition, t.season)[t.step + 1]
             start == FetchDataStart(endpoint) IN
         /\ tabs' = [tabs EXCEPT ![s] =
                [t EXCEPT !.pc = start.pc, !.step = t.step + 1, !.endpoint = endpoint,
                    !.allTeams = t.allTeams \o TeamsOf(data),
                    !.pending = start.pending,
                    !.fetched = Append(t.fetched, data),
                    !.trace = t.trace \o start.events]]
         /\ http' = IF start.live THEN [http EXCEPT ![endpoint] = @ + 1] ELSE http
         /\ UNCHANGED <<activeTab, isLoading, tabData>>
    ELSE LET loaded == Load(t, data)
             tail == switchTabTail(t.tabId, loaded) IN
         /\ tabs' = [tabs EXCEPT ![s] =
                [t EXCEPT !.pc = "done", !.allTeams = <<>>, !.pending = JsNull,
                    !.fetched = Append(t.fetched, data),
                    !.loaded = loaded, !.settled = tail.settled,
                    !.trace = t.trace \o tail.events]]
         /\ Emit(tail.events)
         /\ UNCHANGED http

\* promise continuations run before the next network callback is delivered
NoMicrotaskPending == \A s \in Switches : tabs[s].pc # "resume"

\* the cached payload was returned: the awaiting call resumes
TabResume(s) ==
    /\ tabs[s].pc = "resume"
    /\ Resumed(s, tabs[s].pending)
    /\ UNCHANGED <<cache, now, ticks, calls, thisActiveTab, pageVars>>

\* the live call of s fails (fetch rejects, status not ok, or body unparsable):
\* fetchData returns from its catch block and the awaiting call resumes
TabFetchFails(s) ==
    /\ tabs[s].pc = "fetch"
    /\ NoMicrotaskPending
    /\ cache' = FetchDataCatch(tabs[s].endpoint).cache
    /\ FetchDataCatch(tabs[s].endpoint).pc = "returned"
    /\ Resumed(s, FetchDataCatch(tabs[s].endpoint).result)
    /\ UNCHANGED <<now, ticks, calls, thisActiveTab, pageVars>>

\* the live call of s succeeds with body `data`: fetchData stores and returns
\* it and the awaiting call resumes
TabFetchSucceeds(s, data) ==
    /\ tabs[s].pc = "fetch"
    /\ NoMicrotaskPending
    /\ cache' = CacheSet(tabs[s].endpoint, data)
    /\ Resumed(s, data)
    /\ UNCHANGED <<now, ticks, calls, thisActiveTab, pageVars>>

\* TabManager.getCurrentTab and isTabActive: the field the constructor set
getCurrentTab == thisActiveTab

isTabActive(tabId) == thisActiveTab = tabId

\* the tab the host page constructs the TabManager with
InitialTab == "live-matches"

TabIds == KnownTabs \cup {"settings"}

Competitions == {"PL"}

Seasons == {Undefined}

\* every endpoint key a switchTab call of the model can request
TabEndpoints ==
    UNION { {FirstEndpoint(t, c, y) : t \in KnownTabs}
                \cup {fetchTeamsEndpoints(c, y)[i] : i \in 1..3}
            : c \in Competitions, y \in Seasons }

InitTab ==
    /\ cache = <<>>
    /\ now = 0
    /\ ticks = 0
    /\ http = [e \in TabEndpoints |-> 0]
    /\ calls = <<>>
    /\ thisActiveTab = InitialTab
    /\ activeTab = InitialTab
    /\ isLoading = FALSE
    /\ tabData = JsNull
    /\ tabs = [s \in 1..MaxSwitch |-> IdleSwitch]
    /\ analytics = IdleAnalytics
    /\ peer = IdlePeer
    /\ direct = IdleDirect
    /\ contactForm = IdleForm

NextTab ==
    \/ \E s \in Switches, t \in TabIds, c \in Competitions, y \in Seasons :
            SwitchTab(s, t, c, y)
    \/ \E s \in Switches : TabResume(s)
    \/ \E s \in Switches : TabFetchFails(s)
    \/ \E s \in Switches : \E d \in ServerBodies(tabs[s].endpoint) : TabFetchSucceeds(s, d)

SpecTab == InitTab /\ [][NextTab]_vars

\* the host page makes its next switchTab call once the previous one has run to
\* its end
SwitchTabNext(s, tabId, competition, season) ==
    /\ \A u \in 1..(s - 1) : tabs[u].pc = "done"
    /\ SwitchTab(s, tabId, competition, season)

NextTabSeq ==
    \/ \E s \in Switches, t \in TabIds, c \in Competitions, y \in Seasons :
            SwitchTabNext(s, t, c, y)
    \/ \E s \in Switches : TabResume(s)
    \/ \E s \in Switches : TabFetchFails(s)
    \/ \E s \in Switches : \E d \in ServerBodies(tabs[s].endpoint) : TabFetchSucceeds(s, d)

SpecTabSeq == InitTab /\ [][NextTabSeq]_vars

\* competition codes: the five the API maps, and one it does not
AllCompetitions == {"PL", "PD", "SA", "BL1", "FL1", "XX"}

\* seasons: none given, and two that events of the upstream bodies carry
EventSeasons == {Undefined, "2023-2024", "2024-2025"}

\* seasons: none given, two the mock standings hold, and one they do not
TableSeasons == {Undefined, "2023-2024", "2022-2023", "2019-2020"}

\* a competition code that names an inherited property
InheritedCodes == {"constructor"}

\* event identifiers asked of the lineup, statistics and timeline calls
EventIds == {"1", "441613"}

\* endpoint keys given to fetchData itself: keys holding two of the
\* substrings getMockData looks for, one of them, and none
ProbeKeys ==
    {"/teams_table.php", "/table_events.php", "/matches_teams.php",
     "/table_matches.php", "/matches.php", "/lookupplayer.php?id=1"}

\* competition codes asked where substitutes are examined: two mapped, one not
MockCompetitions == {"PL", "SA", "XX"}

\* every endpoint key a switchTab call can request with these arguments
AllEndpoints ==
    UNION { {FirstEndpoint(t, c, y) : t \in KnownTabs}
                \cup {fetchTeamsEndpoints(c, y)[i] : i \in 1..3}
            : c \in AllCompetitions \cup InheritedCodes, y \in EventSeasons \cup TableSeasons }
    \cup UNION { {DirectEndpoint(f, c, y, e) : f \in DirectFns \ {"fetchData"}}
                  : c \in AllCompetitions, y \in TableSeasons, e \in EventIds }
    \cup ProbeKeys

\* a TabManager whose API may be asked for any of the competitions
InitWide ==
    /\ cache = <<>>
    /\ now = 0
    /\ ticks = 0
    /\ http = [e \in AllEndpoints |-> 0]
    /\ calls = <<>>
    /\ thisActiveTab = InitialTab
    /\ activeTab = InitialTab
    /\ isLoading = FALSE
    /\ tabData = JsNull
    /\ tabs = [s \in 1..MaxSwitch |-> IdleSwitch]
    /\ analytics = IdleAnalytics
    /\ peer = IdlePeer
    /\ direct = IdleDirect
    /\ contactForm = IdleForm

\* competition codes asked of the recent-results tab
ResultsCompetitions == {"PL", "SA", "XX"}

\* bodies the past-events endpoint answers with
PastEventsBodies == {JsNull, LiveEventsBody, EmptyBody}

\* switchTab('recent-results', competition, season), one call after another
NextResults ==
    \/ \E s \in Switches, c \in ResultsCompetitions, y \in EventSeasons :
            SwitchTabNext(s, "recent-results", c, y)
    \/ \E s \in Switches : TabResume(s)
    \/ \E s \in Switches : TabFetchFails(s)
    \/ \E s \in Switches : \E d \in PastEventsBodies : TabFetchSucceeds(s, d)

SpecResults == InitWide /\ [][NextResults]_vars

\* competition codes asked of the team-stats tab
TeamsCompetitions == {"PL", "SA"}

\* switchTab('team-stats', competition), one call after another
NextTeams ==
    \/ \E s \in Switches, c \in TeamsCompetitions, y \in Seasons :
            SwitchTabNext(s, "team-stats", c, y)
    \/ \E s \in Switches : TabResume(s)
    \/ \E s \in Switches : TabFetchFails(s)
    \/ \E s \in Switches : \E d \in ServerBodies(tabs[s].endpoint) : TabFetchSucceeds(s, d)

SpecTeams == InitWide /\ [][NextTeams]_vars

\* bodies the table endpoint answers with
TableBodies == {JsNull, EmptyBody, EmptyTableBody, LiveTableBody, SparseTableBody}

\* switchTab('league-tables', competition, season) on a TabManager whose
\* cache is cold: the first fetchStandings call, which has to go to the network
NextCold ==
    \/ \E c \in AllCompetitions, y \in TableSeasons : SwitchTab(1, "league-tables", c, y)
    \/ TabFetchFails(1)
    \/ \E d \in TableBodies : TabFetchSucceeds(1, d)

SpecCold == InitWide /\ [][NextCold]_vars

\* the tabs whose loader awaits fetchData once, and an unknown tab
RaceTabs == {"live-matches", "league-tables", "recent-results", "settings"}

\* switchTab calls that may overlap, on the tabs of RaceTabs
NextRace ==
    \/ \E s \in Switches, t \in RaceTabs, c \in Competitions, y \in Seasons :
            SwitchTab(s, t, c, y)
    \/ \E s \in Switches : TabResume(s)
    \/ \E s \in Switches : TabFetchFails(s)
    \/ \E s \in Switches : \E d \in ServerBodies(tabs[s].endpoint) : TabFetchSucceeds(s, d)

SpecRace == InitTab /\ [][NextRace]_vars

\* the first switchTab call of a TabManager, for the tabs whose loaders use
\* the four lookups, with mapped and unmapped competition codes; a code that
\* names an inherited property is asked of the standings
NextCodes ==
    \/ \E t \in {"league-tables", "team-stats"}, c \in AllCompetitions, y \in Seasons :
            SwitchTab(1, t, c, y)
    \/ \E c \in InheritedCodes, y \in Seasons : SwitchTab(1, "league-tables", c, y)
    \/ TabFetchFails(1)
    \/ \E d \in ServerBodies(tabs[1].endpoint) : TabFetchSucceeds(1, d)

SpecCodes == InitWide /\ [][NextCodes]_vars

-----------------------------------------------------------------------------
(* FootballAPI.fetchAnalyticsData *)

\* a number with one decimal place, held in tenths: parseFloat(x.toFixed(1))
Tenths(t) == [kind |-> "number", tenths |-> t]

NaNTenths == [kind |-> "NaN", tenths |-> 0]

\* standings.standings?.[0]?.table || []
StandingsTableOf(standings) ==
    IF Has(standings, "standings") /\ Len(standings.standings) > 0 /\ Has(standings.standings[1], "table")
    THEN standings.standings[1].table
    ELSE <<>>

\* matches.matches?.filter(m => m.status === 'FINISHED').slice(0, 100) || []
RecentMatchesOf(matches) ==
    IF Has(matches, "matches")
    THEN LET finished == SelectSeq(matches.matches, IsFinished) IN
         SubSeq(finished, 1, IF Len(finished) < 100 THEN Len(finished) ELSE 100)
    ELSE <<>>

\* table.reduce((sum, team) => sum + (team[f] || 0), 0)
SumOf(table, f) ==
    LET RECURSIVE Upto(_)
        Upto(i) == IF i = 0 THEN 0 ELSE Upto(i - 1) + table[i][f]
    IN  Upto(Len(table))

\* table.reduce((max, team) => (team.goalsFor || 0) > (max?.goalsFor || 0) ? team : max, null)
TopScoringTeamData(table) ==
    LET GoalsOf(max) == IF IsNull(max) THEN 0 ELSE max.goalsFor
        RECURSIVE Upto(_)
        Upto(i) == IF i = 0 THEN JsNull
                   ELSE IF table[i].goalsFor > GoalsOf(Upto(i - 1)) THEN table[i]
                   ELSE Upto(i - 1)
    IN  Upto(Len(table))

AvgGoalsPerMatch_Divides(totalGoals, playedGames) ==
    IF playedGames = 0 THEN NaNTenths
    ELSE Tenths((40 * totalGoals + playedGames) \div (2 * playedGames))

\* totalMatchesPlayed > 0 ? (totalGoals / totalMatchesPlayed).toFixed(1) : '0.0',
\* then parseFloat; totalMatchesPlayed is half the sum `playedGames` of the
\* played games.  A quotient halfway between two tenths is rounded up here.
AvgGoalsPerMatch(totalGoals, playedGames) ==
    IF playedGames > 0
    THEN Tenths((40 * totalGoals + playedGames) \div (2 * playedGames))
    ELSE Tenths(0)

\* the summary the try block returns
AnalyticsSummary(standings, matches) ==
    LET standingsTable == StandingsTableOf(standings)
        totalGoals == SumOf(standingsTable, "goalsFor")
        playedGames == SumOf(standingsTable, "playedGames")
        top == TopScoringTeamData(standingsTable)
    IN  [totalGoals |-> totalGoals,
         avgGoalsPerMatch |-> AvgGoalsPerMatch(totalGoals, playedGames),
         topScorerGoals |-> IF IsNull(top) THEN 0 ELSE top.goalsFor,
         topScoringTeam |-> IF IsNull(top) THEN "Unknown" ELSE OrElse(top.team.name, "Unknown"),
         topTeams |-> standingsTable,
         recentMatches |-> RecentMatchesOf(matches),
         leagueStats |-> << [name |-> "Goals", value |-> totalGoals],
                            [name |-> "Matches", value |-> (playedGames + 1) \div 2],
                            [name |-> "Wins", value |-> SumOf(standingsTable, "won")],
                            [name |-> "Draws", value |-> SumOf(standingsTable, "draw")] >>]

\* the summary the catch block returns
EmptySummary ==
    [totalGoals |-> 0, avgGoalsPerMatch |-> Tenths(0), topScorerGoals |-> 0,
     topScoringTeam |-> "Unknown", topTeams |-> <<>>, recentMatches |-> <<>>,
     leagueStats |-> <<>>]

fetchAnalyticsDataCatch_Rethrows == [settled |-> "rejected", result |-> JsNull]

\* catch (error) { ...; return { totalGoals: 0, ... } }
fetchAnalyticsDataCatch == [settled |-> "resolved", result |-> EmptySummary]

\* the two feeds, in the order of the Promise.all array
Feeds == {"standings", "matches"}

FeedEndpoint(feed, competition, season) ==
    IF feed = "standings" THEN fetchStandingsEndpoint(competition, season)
    ELSE fetchCompetitionMatchesEndpoint(competition)

\* what the normalizer of the feed makes of the answer of fetchData
Normalize(feed, data) ==
    IF feed = "standings" THEN fetchStandings(data, analytics.competition, analytics.season)
    ELSE fetchCompetitionMatches(data, analytics.competition, analytics.season)

\* a feed whose fetchData call is up to its await
StartFeed(feed, competition, season) ==
    LET endpoint == FeedEndpoint(feed, competition, season)
        start == FetchDataStart(endpoint) IN
    [IdleFeed EXCEPT !.pc = start.pc, !.endpoint = endpoint, !.pending = start.pending]

\* no fetchData call of a feed is under way
FeedsSettled == \A f \in Feeds : analytics[f].pc \in {"idle", "settled"}

\* fetchAnalyticsData(competition, season) up to the await of Promise.all:
\* both normalizers have run up to their await of fetchData
AnalyticsCall(competition, season) ==
    /\ analytics.pc \in {"idle", "done"}
    /\ FeedsSettled
    /\ analytics.made < MaxAnalytics
    /\ LET standings == StartFeed("standings", competition, season)
           matches == StartFeed("matches", competition, season) IN
       /\ analytics' = [pc |-> "waiting", made |-> analytics.made + 1,
                        competition |-> competition, season |-> season,
                        standings |-> standings, matches |-> matches,
                        settled |-> "pending", result |-> JsNull]
       /\ http' = [e \in DOMAIN http |->
                      http[e] + (IF standings.pc = "fetch" /\ standings.endpoint = e THEN 1 ELSE 0)
                              + (IF matches.pc = "fetch" /\ matches.endpoint = e THEN 1 ELSE 0)]
    /\ UNCHANGED <<cache, now, ticks, calls, tabVars, peer, direct, contactForm>>

\* fetchData of `feed` resolved with `data`: its normalizer runs to its end,
\* and Promise.all settles when a feed throws or when both have returned
FeedResumed(feed, data) ==
    LET out == Normalize(feed, data)
        after == [analytics EXCEPT ![feed] =
                    [@ EXCEPT !.pc = "settled", !.pending = JsNull, !.fetched = data, !.out = out]]
    IN  analytics' =
            IF analytics.pc # "waiting" THEN after
            ELSE IF out.threw
            THEN [after EXCEPT !.pc = "done", !.settled = fetchAnalyticsDataCatch.settled,
                               !.result = fetchAnalyticsDataCatch.result]
            ELSE IF \A f \in Feeds : after[f].pc = "settled"
            THEN [after EXCEPT !.pc = "done", !.settled = "resolved",
                               !.result = AnalyticsSummary(after.standings.out.value,
                                                           after.matches.out.value)]
            ELSE after

NoFeedMicrotaskPending == \A f \in Feeds : analytics[f].pc # "resume"

\* the cached payload was returned to the feed
FeedResume(feed) ==
    /\ analytics[feed].pc = "resume"
    /\ FeedResumed(feed, analytics[feed].pending)
    /\ UNCHANGED <<cache, now, ticks, http, calls, tabVars, peer, direct, contactForm>>

\* the live call of the feed fails: fetchData returns the substitute
FeedFetchFails(feed) ==
    /\ analytics[feed].pc = "fetch"
    /\ NoFeedMicrotaskPending
    /\ cache' = FetchDataCatch(analytics[feed].endpoint).cache
    /\ FetchDataCatch(analytics[feed].endpoint).pc = "returned"
    /\ FeedResumed(feed, FetchDataCatch(analytics[feed].endpoint).result)
    /\ UNCHANGED <<now, ticks, http, calls, tabVars, peer, direct, contactForm>>

\* the live call of the feed succeeds with body `data`
FeedFetchSucceeds(feed, data) ==
    /\ analytics[feed].pc = "fetch"
    /\ NoFeedMicrotaskPending
    /\ cache' = CacheSet(analytics[feed].endpoint, data)
    /\ FeedResumed(feed, data)
    /\ UNCHANGED <<now, ticks, http, calls, tabVars, peer, direct, contactForm>>

\* competition codes asked of the analytics page: one mapped, one not
AnalyticsCompetitions == {"PL", "XX"}

\* bodies the two endpoints answer with
FeedBodies(feed) ==
    IF feed = "standings" THEN {JsNull, EmptyBody, EmptyTableBody, LiveTableBody}
    ELSE PastEventsBodies

NextAnalytics ==
    \/ \E c \in AnalyticsCompetitions, y \in Seasons : AnalyticsCall(c, y)
    \/ \E f \in Feeds : FeedResume(f)
    \/ \E f \in Feeds : FeedFetchFails(f)
    \/ \E f \in Feeds : \E d \in FeedBodies(f) : FeedFetchSucceeds(f, d)

SpecAnalytics == InitWide /\ [][NextAnalytics]_vars

\* a table in which no team has scored yet
ZeroGoalsTableBody ==
    [table |-> <<
        [idTeam |-> "133604", strTeam |-> "Arsenal", intRank |-> "1", intPlayed |-> "1",
         intWin |-> "0", intDraw |-> "1", intLoss |-> "0", intGoalsFor |-> "0",
         intGoalsAgainst |-> "0", intGoalDifference |-> "0", intPoints |-> "1"],
        [idTeam |-> "133635", strTeam |-> "Fulham", intRank |-> "2", intPlayed |-> "1",
         intWin |-> "0", intDraw |-> "1", intLoss |-> "0", intGoalsFor |-> "0",
         intGoalsAgainst |-> "0", intGoalDifference |-> "0", intPoints |-> "1"] >>]

\* a table in which the second and the third team share the most goals
TiedGoalsTableBody ==
    [table |-> <<
        [idTeam |-> "133604", strTeam |-> "Arsenal", intRank |-> "1", intPlayed |-> "2",
         intWin |-> "2", intDraw |-> "0", intLoss |-> "0", intGoalsFor |-> "3",
         intGoalsAgainst |-> "0", intGoalDifference |-> "3", intPoints |-> "6"],
        [idTeam |-> "133635", strTeam |-> "Fulham", intRank |-> "2", intPlayed |-> "2",
         intWin |-> "1", intDraw |-> "0", intLoss |-> "1", intGoalsFor |-> "5",
         intGoalsAgainst |-> "4", intGoalDifference |-> "1", intPoints |-> "3"],
        [idTeam |-> "133610", strTeam |-> "Everton", intRank |-> "3", intPlayed |-> "2",
         intWin |-> "1", intDraw |-> "0", intLoss |-> "1", intGoalsFor |-> "5",
         intGoalsAgainst |-> "5", intGoalDifference |-> "0", intPoints |-> "3"] >>]

TopTeamBodies(feed) ==
    IF feed = "standings" THEN {ZeroGoalsTableBody, TiedGoalsTableBody, LiveTableBody}
    ELSE {LiveEventsBody}

\* fetchAnalyticsData over tables with one, several and no top-scoring row
NextTopTeam ==
    \/ \E c \in AnalyticsCompetitions, y \in Seasons : AnalyticsCall(c, y)
    \/ \E f \in Feeds : FeedResume(f)
    \/ \E f \in Feeds : FeedFetchFails(f)
    \/ \E f \in Feeds : \E d \in TopTeamBodies(f) : FeedFetchSucceeds(f, d)

SpecTopTeam == InitWide /\ [][NextTopTeam]_vars

-----------------------------------------------------------------------------
(* Calls made on the FootballAPI itself *)

\* the method is called, the first call made on the FootballAPI, and runs up
\* to its await this.fetchData(endpoint)
DirectCall(fn, competition, season, arg) ==
    /\ direct.pc = "idle"
    /\ LET endpoint == DirectEndpoint(fn, competition, season, arg)
           start == FetchDataStart(endpoint) IN
       /\ direct' = [IdleDirect EXCEPT !.pc = start.pc, !.fn = fn,
                        !.competition = competition, !.season = season,
                        !.arg = arg, !.endpoint = endpoint,
                        !.pending = start.pending]
       /\ http' = IF start.live THEN [http EXCEPT ![endpoint] = @ + 1] ELSE http
    /\ UNCHANGED <<cache, now, ticks, calls, tabVars, analytics, peer, contactForm>>

\* fetchData resolved with `data`: the method runs to its end
DirectResumed(data) ==
    direct' = [direct EXCEPT !.pc = "done", !.pending = JsNull, !.fetched = data,
                             !.out = DirectFinish(direct, data)]

\* the live call fails: fetchData returns the substitute
DirectFetchFails ==
    /\ direct.pc = "fetch"
    /\ cache' = FetchDataCatch(direct.endpoint).cache
    /\ FetchDataCatch(direct.endpoint).pc = "returned"
    /\ DirectResumed(FetchDataCatch(direct.endpoint).result)
    /\ UNCHANGED <<now, ticks, http, calls, tabVars, analytics, peer, contactForm>>

\* the live call succeeds with body `data`
DirectFetchSucceeds(data) ==
    /\ direct.pc = "fetch"
    /\ cache' = CacheSet(direct.endpoint, data)
    /\ DirectResumed(data)
    /\ UNCHANGED <<now, ticks, http, calls, tabVars, analytics, peer, contactForm>>

\* bodies the four endpoints answer with
LiveLineupBody == [lineup |-> << [idPlayer |-> "34145937", strPlayer |-> "Bukayo Saka"] >>]

LiveEventStatsBody == [eventstats |-> << [strStat |-> "Shots on Goal", intHome |-> "5", intAway |-> "3"] >>]

LiveTimelineBody == [timeline |-> << [strTimeline |-> "Goal", intTime |-> "12"] >>]

LiveScorersBody ==
    [topscorers |-> <<
        [strPlayer |-> "Erling Haaland", intGoals |-> "14", strTeam |-> "Manchester City",
         strNationality |-> "Norway"],
        [strPlayer |-> "Cole Palmer", strTeam |-> "Chelsea", strNationality |-> "England"] >>]

\* events whose status is one of the two strings the methods look for, a
\* string that differs from them in case or spacing, another provider status,
\* the empty string, and no status at all
StatusEventsBody ==
    [events |-> <<
        LiveEvent("911", "Everton", "Fulham", "1", "0", "Match Finished", "2023-2024", "20"),
        LiveEvent("912", "Watford", "Stoke", NoScore, NoScore, "Not Started", "2024-2025", "21"),
        LiveEvent("913", "Leeds", "Burnley", "2", "2", "match finished", "2024-2025", "21"),
        LiveEvent("914", "Derby", "Hull", "0", "0", "Not Started ", "2023-2024", "20"),
        LiveEvent("915", "Luton", "Wigan", "3", "1", "FT", "2024-2025", "21"),
        LiveEvent("916", "Bolton", "Barnsley", NoScore, NoScore, "", "2024-2025", "22"),
        [idEvent |-> "917", idHomeTeam |-> "h917", idAwayTeam |-> "a917",
         strHomeTeam |-> "Reading", strAwayTeam |-> "Exeter",
         dateEvent |-> "2025-01-04", strSeason |-> "2023-2024"] >>]

StatusBodies == {JsNull, EmptyBody, LiveEventsBody, StatusEventsBody}

DirectBodies(fn) ==
    CASE fn = "fetchLineup" -> {JsNull, EmptyBody, LiveLineupBody}
      [] fn = "fetchEventStats" -> {JsNull, EmptyBody, LiveEventStatsBody}
      [] fn = "fetchTimeline" -> {JsNull, EmptyBody, LiveTimelineBody}
      [] fn = "fetchTopScorers" -> {JsNull, EmptyBody, LiveScorersBody}
      [] fn \in {"fetchMatches", "fetchCompetitionMatches"} -> StatusBodies
      [] OTHER -> {JsNull, EmptyBody}

\* the four tab loaders and the four direct calls, any of which may fail
NextMock ==
    \/ \E t \in KnownTabs, c \in MockCompetitions, y \in Seasons : SwitchTab(1, t, c, y)
    \/ TabFetchFails(1)
    \/ \E d \in ServerBodies(tabs[1].endpoint) : TabFetchSucceeds(1, d)
    \/ \E e \in EventIds : DirectCall("fetchLineup", "", Undefined, e)
    \/ \E e \in EventIds : DirectCall("fetchEventStats", "", Undefined, e)
    \/ \E e \in EventIds : DirectCall("fetchTimeline", "", Undefined, e)
    \/ \E c \in MockCompetitions, y \in TableSeasons : DirectCall("fetchTopScorers", c, y, "")
    \/ \E k \in ProbeKeys : DirectCall("fetchData", "", Undefined, k)
    \/ DirectFetchFails
    \/ \E d \in DirectBodies(direct.fn) : DirectFetchSucceeds(d)

SpecMock == InitWide /\ [][NextMock]_vars

\* the two match methods, called with each competition and season
NextStatus ==
    \/ \E y \in EventSeasons : DirectCall("fetchMatches", "", y, "")
    \/ \E c \in AllCompetitions, y \in EventSeasons : DirectCall("fetchCompetitionMatches", c, y, "")
    \/ DirectFetchFails
    \/ \E d \in StatusBodies : DirectFetchSucceeds(d)

SpecStatus == InitWide /\ [][NextStatus]_vars

\* switchTab('live-matches', competition, season) on a TabManager whose cache
\* is cold, the provider answering with events of every kind of status
NextLive ==
    \/ \E c \in AllCompetitions, y \in EventSeasons : SwitchTab(1, "live-matches", c, y)
    \/ TabFetchFails(1)
    \/ \E d \in StatusBodies : TabFetchSucceeds(1, d)

SpecLive == InitWide /\ [][NextLive]_vars

\* a 2xx body of the next-events endpoint: one event carries its season, the
\* other two have none (null, and no such property)
UnseasonedEventsBody ==
    [events |-> <<
        LiveEvent("921", "Everton", "Fulham", "1", "0", "1H", "2024-2025", "20"),
        LiveEvent("922", "Leeds", "Burnley", "2", "2", "2H", "null", "21"),
        [idEvent |-> "923", strHomeTeam |-> "Derby", strAwayTeam |-> "Hull",
         dateEvent |-> "2025-01-04", strStatus |-> "HT"] >>]

UpcomingBodies == {LiveEventsBody, UnseasonedEventsBody}

UpcomingCompetitions == {"PL", "SA"}

UpcomingSeasons == {Undefined, "2023-2024"}

\* switchTab('live-matches', competition, season) called again and again, each
\* call once the previous one has ended, with any competition and season
NextUpcoming ==
    \/ \E s \in Switches, c \in UpcomingCompetitions, y \in UpcomingSeasons :
            SwitchTabNext(s, "live-matches", c, y)
    \/ \E s \in Switches : TabResume(s)
    \/ \E s \in Switches : TabFetchFails(s)
    \/ \E s \in Switches : \E d \in UpcomingBodies : TabFetchSucceeds(s, d)

SpecUpcoming == InitWide /\ [][NextUpcoming]_vars

\* seasons: none given, the empty string, two that events of the bodies carry
\* and one that none of them carries
PastSeasons == {Undefined, "", "2023-2024", "2024-2025", "2022-2023"}

PastBodies == StatusBodies \cup {UnseasonedEventsBody}

\* fetchCompetitionMatches(competition, season) on a cold cache
NextPast ==
    \/ \E c \in AllCompetitions, y \in PastSeasons : DirectCall("fetchCompetitionMatches", c, y, "")
    \/ DirectFetchFails
    \/ \E d \in PastBodies : DirectFetchSucceeds(d)

SpecPast == InitWide /\ [][NextPast]_vars

\* a 2xx body of the top-scorers endpoint whose list has no rows
EmptyScorersBody == [topscorers |-> <<>>]

ScorersBodies == {JsNull, EmptyBody, EmptyScorersBody, LiveScorersBody}

\* fetchTopScorers(competition, season) on a cold cache
NextScorers ==
    \/ \E c \in AllCompetitions, y \in TableSeasons : DirectCall("fetchTopScorers", c, y, "")
    \/ DirectFetchFails
    \/ \E d \in ScorersBodies : DirectFetchSucceeds(d)

SpecScorers == InitWide /\ [][NextScorers]_vars

-----------------------------------------------------------------------------
(* The contact form *)

\* what the visitor may type into each field
FieldValues(field) ==
    CASE field = "name" -> {"", "  ", "Ann"}
      [] field = "email" -> {"", "ann.example.org", " ann@example.org"}
      [] field = "subject" -> {"", "Hi"}
      [] field = "message" -> {"", "\n", "Hello"}

\* handleInputChange: the visitor edits one field; the inputs stay enabled
\* while a message is being sent
HandleInputChange(field, value) ==
    /\ contactForm.formData[field] # value
    /\ contactForm' = [contactForm EXCEPT !.formData[field] = value]
    /\ UNCHANGED <<cache, now, ticks, http, calls, tabVars, analytics, peer, direct>>

\* handleSubmit up to its await.  The submit button is disabled while
\* isSubmitting is true, so the form is not submitted again meanwhile.
HandleSubmit ==
    /\ ~contactForm.isSubmitting
    /\ contactForm.made < MaxSubmits
    /\ contactForm' =
         IF Validated(contactForm.formData)
         THEN [contactForm EXCEPT !.made = @ + 1, !.isSubmitting = TRUE, !.pc = "sending",
                           !.submitted = contactForm.formData,
                           !.sends = Append(@, TemplateParams(contactForm.formData))]
         ELSE [contactForm EXCEPT !.made = @ + 1,
                           !.toasts = Append(@, ValidationToast(contactForm.formData))]
    /\ UNCHANGED <<cache, now, ticks, http, calls, tabVars, analytics, peer, direct>>

\* emailjs.send resolves
SendSucceeds ==
    /\ contactForm.pc = "sending"
    /\ contactForm' = handleSubmitSent(contactForm)
    /\ UNCHANGED <<cache, now, ticks, http, calls, tabVars, analytics, peer, direct>>

\* emailjs.send rejects
SendFails ==
    /\ contactForm.pc = "sending"
    /\ contactForm' = handleSubmitCatch(contactForm)
    /\ UNCHANGED <<cache, now, ticks, http, calls, tabVars, analytics, peer, direct>>

NextForm ==
    \/ \E f \in FormFields : \E v \in FieldValues(f) : HandleInputChange(f, v)
    \/ HandleSubmit
    \/ SendSucceeds
    \/ SendFails

SpecForm == InitWide /\ [][NextForm]_vars

-----------------------------------------------------------------------------
(* Properties of FootballAPI.fetchData *)

Started(c) == calls[c].pc # "idle"

\* the call issued a live GET
Live(c) == Started(c) /\ calls[c].outcome # "hit"

\* endpoint keys reaching each branch of the substitute selection
MockKeys ==
    { "/search_all_teams.php?l=English_Premier_League",
      "/lookuptable.php?l=4328&s=2024-2025",
      "/eventspastleague.php?id=4335",
      "/lookuptopscorers.php?l=4328&s=2024-2025" }

\* every branch of the substitute selection marks its payload
MockKeysMarked ==
    \A e \in MockKeys \cup Endpoints \cup {RepeatKey} :
        /\ Has(getMockData(e), "_isMockData")
        /\ getMockData(e)._isMockData = TRUE

\* C1: whatever way the live call fails (network error, non-2xx status, body
\* that does not parse), fetchData returns a value and does not throw, and the
\* returned value carries _isMockData = true, for every endpoint key.
C1_FailureReturnsMock ==
    /\ \A c \in Callers :
        /\ calls[c].pc # "threw"
        /\ calls[c].outcome \in Failures =>
              /\ calls[c].pc = "returned"
              /\ Has(calls[c].result, "_isMockData")
              /\ calls[c].result._isMockData = TRUE
    /\ MockKeysMarked

C1_Witness ==
    \E c, d \in Callers :
        /\ calls[c].outcome = "bad_json"
        /\ calls[d].outcome = "bad_status"
        /\ calls[c].pc = "returned" /\ calls[d].pc = "returned"
        /\ calls[c].result._isMockData = TRUE
        /\ calls[c].endpoint # calls[d].endpoint

\* C2 as stated: a second call for a key, made after the first call for it
\* has completed and within the TTL window of it, performs no live call (the
\* two perform exactly one live call in total).
C2_Original ==
    [][\A j \in Callers :
        ( /\ j > 1
          /\ calls[j].pc = "idle" /\ calls'[j].pc # "idle"
          /\ \A i \in 1..(j - 1) : calls[i].pc = "returned"
          /\ calls'[j].endpoint = calls[1].endpoint
          /\ now - calls[1].startedAt < 600000 )
        => /\ calls'[j].outcome = "hit"
           /\ http'[calls[1].endpoint] = 1]_vars

\* C2 amended: once a live call for a key has succeeded and stored its payload
\* at time ts, a later call for the key started within the TTL window
\* (start - ts < 600000) performs no live call, so that the two perform exactly
\* one, and a call started when the TTL has elapsed since ts performs a new
\* live call; the live calls of a key are exactly its calls that were not
\* served from the cache.
C2_OneLiveCallPerWindow ==
    /\ \A j \in Callers :
        LET e == calls[j].endpoint IN
        ( /\ Started(j)
          /\ e \in DOMAIN cache
          /\ cache[e].timestamp < calls[j].startedAt )
        => IF calls[j].startedAt - cache[e].timestamp < 600000
           THEN ~Live(j)
           ELSE Live(j)
    /\ \A e \in DOMAIN http :
        http[e] = Cardinality({c \in Callers : Live(c) /\ calls[c].endpoint = e})

C2_Witness ==
    /\ MaxRepeat >= 3
    /\ calls[1].outcome = "ok"
    /\ calls[2].outcome = "hit"
    /\ calls[2].startedAt > calls[1].startedAt
    /\ calls[3].pc = "fetch"
    /\ calls[3].startedAt - cache[RepeatKey].timestamp >= 600000
    /\ http[RepeatKey] = 2

\* C3: a call finding an entry younger than 600000 ms returns exactly the
\* stored payload, issues no HTTP request and leaves the cache as it is; a
\* call finding no entry, or one of age 600000 ms or more, issues a live GET.
C3_FreshHitElseLive ==
    [][\A c \in Callers :
        (calls[c].pc = "idle" /\ calls'[c].pc # "idle") =>
            LET e == calls'[c].endpoint IN
            IF e \in DOMAIN cache /\ now - cache[e].timestamp < 600000
            THEN /\ calls'[c].pc = "returned"
                 /\ calls'[c].result = cache[e].data
                 /\ http' = http
                 /\ cache' = cache
            ELSE /\ calls'[c].pc = "fetch"
                 /\ http'[e] = http[e] + 1
                 /\ cache' = cache]_vars

C3_Witness ==
    \E c, d \in Callers :
        /\ calls[c].outcome = "hit"
        /\ calls[c].pc = "returned"
        /\ calls[c].result = cache[calls[c].endpoint].data
        /\ calls[d].pc = "fetch"
        /\ calls[d].endpoint \in DOMAIN cache
        /\ calls[d].startedAt - cache[calls[d].endpoint].timestamp = 600000

\* C4: a failed live attempt leaves the cache map as it was (no entry is
\* added, a stale entry keeps payload and timestamp), and a call for the key
\* started after the failure, no fetch of the key having succeeded since the
\* failed call began, goes live again.
C4_NoNegativeCaching ==
    [][\A c \in Callers :
        /\ (calls[c].pc \in {"fetch", "json"} /\ calls'[c].outcome \in Failures)
              => cache' = cache
        /\ ( /\ calls[c].pc = "idle" /\ calls'[c].pc # "idle"
             /\ \E d \in Callers :
                  /\ calls[d].outcome \in Failures
                  /\ calls[d].endpoint = calls'[c].endpoint
                  /\ \/ calls[d].endpoint \notin DOMAIN cache
                     \/ cache[calls[d].endpoint].timestamp < calls[d].startedAt )
              => /\ calls'[c].pc = "fetch"
                 /\ http'[calls'[c].endpoint] = http[calls'[c].endpoint] + 1]_vars

C4_Witness ==
    \E c, d \in Callers :
        /\ c < d
        /\ calls[c].outcome \in Failures
        /\ calls[d].endpoint = calls[c].endpoint
        /\ calls[d].pc = "fetch"
        /\ calls[d].startedAt >= calls[c].startedAt
        /\ calls[c].endpoint \in DOMAIN cache
        /\ cache[calls[c].endpoint].timestamp + 600000 <= calls[c].startedAt

\* C5: a 2xx response with a parseable body stores {payload, time of
\* completion} under the key, replacing the prior entry and touching no other
\* key, and returns that payload; the cache changes in no other way, so the
\* one entry of a key is the payload of its most recently completed
\* successful live fetch.
C5_SuccessOverwrites ==
    [][/\ \A c \in Callers :
            (calls[c].pc = "json" /\ calls'[c].outcome = "ok") =>
                LET e == calls[c].endpoint IN
                /\ calls'[c].pc = "returned"
                /\ calls'[c].result \in ServerBodies(e)
                /\ DOMAIN cache' = (DOMAIN cache) \cup {e}
                /\ cache'[e] = [data |-> calls'[c].result, timestamp |-> now]
                /\ \A k \in (DOMAIN cache) \ {e} : cache'[k] = cache[k]
       /\ cache' # cache =>
            \E c \in Callers : calls[c].pc = "json" /\ calls'[c].outcome = "ok"]_vars

C5_Witness ==
    \E c, d \in Callers :
        /\ c # d
        /\ calls[c].endpoint = calls[d].endpoint
        /\ calls[c].outcome = "ok" /\ calls[d].outcome = "ok"
        /\ calls[c].result # calls[d].result
        /\ cache[calls[d].endpoint].data = calls[d].result
        /\ cache[calls[d].endpoint].timestamp > calls[d].startedAt

-----------------------------------------------------------------------------
(* Properties of TabManager.switchTab *)

Done(s) == tabs[s].pc = "done"

\* the positions in the trace of call s at which it did `kind`
EventsAt(s, kind) == {i \in 1..Len(tabs[s].trace) : tabs[s].trace[i].ev = kind}

\* call s starts in this step
Starts(s) == tabs[s].pc = "idle" /\ tabs'[s].pc # "idle"

\* call s runs to its end in this step
Completes(s) == tabs[s].pc # "done" /\ tabs'[s].pc = "done"

\* C6: switchTab(tabId, ...) first calls setActiveTab(tabId), then
\* setLoading(true), both in the synchronous part of the call that precedes
\* its first await; every cache access and every network request made for the
\* call comes after these two.
C6_EntryBeforeIO ==
    [][\A s \in Switches :
        /\ tabs'[s].pc # "idle" =>
            LET tr == tabs'[s].trace IN
            /\ Len(tr) >= 2
            /\ tr[1] = [ev |-> "setActiveTab", tab |-> tabs'[s].tabId]
            /\ tr[2] = [ev |-> "setLoading", loading |-> TRUE]
            /\ \A i \in 1..Len(tr) : tr[i].ev \in {"cache.get", "fetch"} => i > 2
        /\ (Starts(s) /\ tabs'[s].pc # "done") =>
            /\ activeTab' = tabs'[s].tabId
            /\ isLoading' = TRUE
      ]_vars

C6_Witness ==
    \E s \in Switches :
        /\ tabs[s].pc = "fetch"
        /\ Len(tabs[s].trace) = 4
        /\ tabs[s].trace[1].ev = "setActiveTab"
        /\ tabs[s].trace[2].ev = "setLoading"
        /\ tabs[s].trace[3].ev = "cache.get"
        /\ tabs[s].trace[4].ev = "fetch"
        /\ activeTab = tabs[s].tabId
        /\ isLoading = TRUE

\* C7: a switchTab call whose load has settled, by returning or by throwing,
\* calls setLoading(false) in the step in which it runs to its end, and that
\* is the last thing the call does: its data write and its notification come
\* before it.
C7_LoadingClearedLast ==
    [][\A s \in Switches :
        Completes(s) =>
            LET tr == tabs'[s].trace IN
            /\ tr[Len(tr)] = [ev |-> "setLoading", loading |-> FALSE]
            /\ isLoading' = FALSE
            /\ \E i \in 1..(Len(tr) - 1) : tr[i].ev = "setTabData"
            /\ \E i \in 1..(Len(tr) - 1) : tr[i].ev = "toast"
            /\ \A i \in 1..(Len(tr) - 1) : tr[i] # [ev |-> "setLoading", loading |-> FALSE]
      ]_vars

C7_Witness ==
    \E s, u \in Switches :
        /\ Done(s) /\ Done(u)
        /\ tabs[s].loaded.threw
        /\ ~tabs[u].loaded.threw
        /\ tabs[u].tabId \in KnownTabs
        /\ tabs[s].trace[Len(tabs[s].trace)].ev = "setLoading"
        /\ ~isLoading

\* the display names the tabs go by
C8_DisplayName ==
    ("live-matches" :> "Live matches") @@ ("league-tables" :> "League standings") @@
    ("team-stats" :> "Teams information") @@ ("recent-results" :> "Recent results")

\* C8: a switchTab call for one of the four tabs whose load returns writes the
\* value the load returned to the tab data, exactly once, and emits exactly
\* one notification: a success notification whose description starts with the
\* display name of the tab. It emits no destructive notification and does
\* not write the error payload.
C8_SuccessPath ==
    [][\A s \in Switches :
        ( /\ Completes(s)
          /\ tabs'[s].tabId \in DOMAIN C8_DisplayName
          /\ ~tabs'[s].loaded.threw )
        => LET tr == tabs'[s].trace
               writes == {i \in 1..Len(tr) : tr[i].ev = "setTabData"}
               toasts == {i \in 1..Len(tr) : tr[i].ev = "toast"}
           IN  /\ Cardinality(writes) = 1
               /\ \A i \in writes : tr[i].data = tabs'[s].loaded.value
               /\ tabData' = tabs'[s].loaded.value
               /\ ~Has(tabData', "errorMessage")
               /\ Cardinality(toasts) = 1
               /\ \A i \in toasts :
                    /\ tr[i].variant # "destructive"
                    /\ tr[i].title = "Data Loaded Successfully"
                    /\ tr[i].description =
                          C8_DisplayName[tabs'[s].tabId] \o " loaded from TheSportsDB API."
      ]_vars

C8_Witness ==
    \E s, u \in Switches :
        /\ Done(s) /\ Done(u)
        /\ tabs[s].tabId = "team-stats" /\ ~tabs[s].loaded.threw
        /\ tabs[u].tabId = "recent-results" /\ ~tabs[u].loaded.threw
        /\ Cardinality(EventsAt(s, "toast")) = 1
        /\ Cardinality(EventsAt(u, "setTabData")) = 1

\* C9: when the load of a switchTab call throws, the call writes the fixed
\* error payload to the tab data, emits a destructive notification and no
\* success notification, and still resolves: the error stays inside switchTab.
C9_FailurePath ==
    [][\A s \in Switches :
        (Completes(s) /\ tabs'[s].loaded.threw)
        => LET tr == tabs'[s].trace
               writes == {i \in 1..Len(tr) : tr[i].ev = "setTabData"}
               toasts == {i \in 1..Len(tr) : tr[i].ev = "toast"}
           IN  /\ writes # {}
               /\ \A i \in writes :
                    /\ DOMAIN tr[i].data = {"error", "errorMessage", "userFriendlyMessage",
                                            "matches", "teams", "standings"}
                    /\ tr[i].data.error = TRUE
                    /\ tr[i].data.matches = <<>>
                    /\ tr[i].data.teams = <<>>
                    /\ tr[i].data.standings = <<>>
               /\ tabData' = tr[CHOOSE i \in writes : TRUE].data
               /\ \E i \in toasts : tr[i].variant = "destructive"
               /\ \A i \in toasts : tr[i].title # "Data Loaded Successfully"
               /\ tabs'[s].settled = "resolved"
      ]_vars

C9_Witness ==
    \E s \in Switches :
        /\ Done(s)
        /\ tabs[s].tabId = "league-tables"
        /\ tabs[s].loaded.threw
        /\ tabs[s].settled = "resolved"
        /\ Has(tabData, "errorMessage")
        /\ \E i \in EventsAt(s, "toast") : tabs[s].trace[i].variant = "destructive"

\* C10: switchTab with a tabId that is none of the four tabs sets the active
\* tab to that tabId, issues no request and touches no cache entry, writes
\* {error: true, message: 'Unknown tab selected'} to the tab data, emits a
\* success notification and no destructive one, and leaves isLoading false.
C10_UnknownTab ==
    [][\A s \in Switches :
        ( /\ Starts(s)
          /\ tabs'[s].tabId \notin {"live-matches", "league-tables", "team-stats",
                                    "recent-results"} )
        => LET tr == tabs'[s].trace
               toasts == {i \in 1..Len(tr) : tr[i].ev = "toast"}
           IN  /\ tabs'[s].pc = "done"
               /\ activeTab' = tabs'[s].tabId
               /\ http' = http
               /\ cache' = cache
               /\ \A i \in 1..Len(tr) : tr[i].ev \notin {"cache.get", "fetch"}
               /\ tabData' = [error |-> TRUE, message |-> "Unknown tab selected"]
               /\ toasts # {}
               /\ \A i \in toasts :
                    /\ tr[i].variant # "destructive"
                    /\ tr[i].title = "Data Loaded Successfully"
               /\ isLoading' = FALSE
      ]_vars

C10_Witness ==
    \E s \in Switches :
        /\ Done(s)
        /\ tabs[s].tabId \notin KnownTabs
        /\ activeTab = tabs[s].tabId
        /\ tabData = [error |-> TRUE, message |-> "Unknown tab selected"]
        /\ ~isLoading
        /\ EventsAt(s, "toast") # {}
        /\ cache # <<>>

\* the payload call s passed to setTabData
WriteOf(s) == LastOf(tabs[s].trace, "setTabData", "data", JsNull)

\* C11: overlapping switchTab calls are neither cancelled nor sequenced: a call
\* that has started stays pending on its request or its microtask whatever the
\* other calls do, the step that settles it ends it with exactly one data
\* write of its own, and no other step changes the tab data, so that once the
\* calls have ended the tab data is the write of the call that ended last,
\* whichever was issued first.
C11_LastCompletionWins ==
    [][/\ \A s \in Switches :
            /\ (tabs[s].pc \in {"fetch", "resume"} /\ ~Completes(s)) => tabs'[s] = tabs[s]
            /\ (tabs[s].pc # "done" /\ tabs'[s].pc # "idle") =>
                    tabs'[s].pc \in {"fetch", "resume", "done"}
            /\ Completes(s) =>
                    /\ Cardinality({i \in 1..Len(tabs'[s].trace) :
                                        tabs'[s].trace[i].ev = "setTabData"}) = 1
                    /\ tabData' = LastOf(tabs'[s].trace, "setTabData", "data", JsNull)
       /\ (\A s \in Switches : ~Completes(s)) => tabData' = tabData]_vars

\* the call issued first ended last, and its write is the one that stays
C11_Witness ==
    /\ Done(1) /\ Done(2)
    /\ tabs[1].tabId # tabs[2].tabId
    /\ WriteOf(1) # WriteOf(2)
    /\ tabData = WriteOf(1)
    /\ activeTab = tabs[2].tabId

\* the switchTab call made last
LatestSwitch == CHOOSE s \in Switches : tabs[s].pc # "idle" /\ \A u \in Switches : tabs[u].pc # "idle" => u <= s

\* no switchTab call is awaiting its loader
NoneInFlight == \A s \in Switches : tabs[s].pc \in {"idle", "done"}

\* C12: a switch request supersedes the write of every earlier request still
\* in flight: whenever no switchTab call is in flight, the tab data is the
\* data loaded for the active tab, the tab of the most recent request.
C12_Original ==
    (NoneInFlight /\ tabs[1].pc # "idle") =>
        /\ activeTab = tabs[LatestSwitch].tabId
        /\ tabData = WriteOf(LatestSwitch)

\* C13: after switchTab(t, ...) has been called, getCurrentTab() returns t,
\* isTabActive(t) is true and isTabActive(u) is false for every other tab u,
\* after every sequence of switchTab calls.
C13_Original ==
    tabs[1].pc # "idle" =>
        /\ getCurrentTab = tabs[LatestSwitch].tabId
        /\ \A u \in TabIds : isTabActive(u) <=> (u = tabs[LatestSwitch].tabId)

\* how the fetchData call number i of call s was answered
AnsweredFromCache(s, i) ==
    LET gets == {j \in 1..Len(tabs[s].trace) : tabs[s].trace[j].ev = "cache.get"}
        at == CHOOSE j \in gets : Cardinality({k \in gets : k <= j}) = i IN
    ~(at < Len(tabs[s].trace) /\ tabs[s].trace[at + 1].ev = "fetch")

AnsweredWithMock(s, i) == Has(tabs[s].fetched[i], "_isMockData")

\* C14: for every competition code, season and upstream response, live,
\* cached or mock substitute, the payload switchTab('recent-results', ...)
\* stores holds in its matches list only records with status FINISHED.
C14_OnlyFinished ==
    \A s \in Switches :
        (Done(s) /\ tabs[s].tabId = "recent-results" /\ Has(WriteOf(s), "matches")) =>
            \A i \in 1..Len(WriteOf(s).matches) : WriteOf(s).matches[i].status = "FINISHED"

\* a live response holding finished and unfinished matches was filtered, and
\* a later call got the same from the cache
C14_Witness ==
    /\ Done(1) /\ Done(2)
    /\ tabs[1].fetched = <<LiveEventsBody>>
    /\ AnsweredFromCache(2, 1)
    /\ tabs[2].season = Undefined
    /\ tabData = WriteOf(2)
    /\ Len(tabs[2].fetched[1].events) = 3
    /\ Len(tabData.matches) = 1

\* what fetchMatches returned to the loader of the live-matches call s
UpcomingOf(s) == fetchMatches(tabs[s].fetched[1], tabs[s].season)

\* C15: when no match returned by fetchMatches has status IN_PLAY or LIVE,
\* switchTab('live-matches', ...) stores a payload with a non-empty message
\* and a matches list equal to the unfiltered list fetchMatches returned, the
\* same elements in the same order.
C15_NoLiveShowsAll ==
    \A s \in Switches :
        (/\ Done(s) /\ tabs[s].tabId = "live-matches"
         /\ ~UpcomingOf(s).threw
         /\ \A i \in 1..Len(UpcomingOf(s).value.matches) :
                UpcomingOf(s).value.matches[i].status \notin {"IN_PLAY", "LIVE"}) =>
            /\ Has(WriteOf(s), "message")
            /\ Len(WriteOf(s).message) > 0
            /\ WriteOf(s).matches = UpcomingOf(s).value.matches

\* the substitute matches, none of them live, were stored whole
C15_Witness ==
    \E s \in Switches :
        /\ Done(s) /\ tabs[s].tabId = "live-matches"
        /\ AnsweredWithMock(s, 1)
        /\ tabData = WriteOf(s)
        /\ Len(tabData.matches) = 6
        /\ \E i \in 1..6 : tabData.matches[i].status = "FINISHED"
        /\ \E i \in 1..6 : tabData.matches[i].status = "SCHEDULED"
        /\ Len(tabData.message) > 0

\* the teams list a team-stats call returned to switchTab
TeamsReturned(s) == tabs[s].loaded.value.teams

\* the identifiers of a list of team records are pairwise distinct
DistinctIds(teams) == \A i, j \in 1..Len(teams) : teams[i].id = teams[j].id => i = j

\* what the answers of the three endpoints put on allTeams, in query order
Merged(s) == TeamsOf(tabs[s].fetched[1]) \o TeamsOf(tabs[s].fetched[2]) \o TeamsOf(tabs[s].fetched[3])

\* a team-stats call has returned
TeamsDone(s) == Done(s) /\ tabs[s].tabId = "team-stats" /\ ~tabs[s].loaded.threw

\* C16: getTeams('PL') returns at least 10 team records with pairwise
\* distinct identifiers even when all three endpoints fail and each call is
\* answered with the substitute data of fetchData.
C16_TenTeamsWhenAllFail ==
    \A s \in Switches :
        (/\ Done(s) /\ tabs[s].tabId = "team-stats" /\ tabs[s].competition = "PL"
         /\ \A i \in 1..3 : AnsweredWithMock(s, i)) =>
            /\ ~tabs[s].loaded.threw
            /\ Len(TeamsReturned(s)) >= 10
            /\ DistinctIds(TeamsReturned(s))
            /\ tabs[s].loaded.value.count = Len(TeamsReturned(s))

\* all three requests of a call for PL failed
C16_Witness ==
    \E s \in Switches :
        /\ TeamsDone(s) /\ tabs[s].competition = "PL"
        /\ \A i \in 1..3 : AnsweredWithMock(s, i) /\ ~AnsweredFromCache(s, i)
        /\ Len(TeamsReturned(s)) = 10
        /\ tabData = tabs[s].loaded.value

\* C17: the teams list getTeams returns never holds two records with the
\* same identifier, the mock top-up included; of an identifier that several
\* endpoints returned, the record kept is the one of the earliest endpoint in
\* the order search by league name, table lookup, search by sport and country.
C17_UniqueFirstWins ==
    \A s \in Switches :
        TeamsDone(s) =>
            LET merged == Merged(s)
                teams == TeamsReturned(s) IN
            /\ DistinctIds(teams)
            /\ \A i \in 1..Len(teams) :
                    LET at == {j \in 1..Len(merged) : merged[j].id = teams[i].id} IN
                    at # {} => teams[i] = merged[CHOOSE j \in at : \A k \in at : j <= k]

\* the search and the table both returned team 133604, with different
\* records, and the list was topped up
C17_Witness ==
    \E s \in Switches :
        /\ TeamsDone(s)
        /\ tabs[s].fetched[1] = LiveTeamsBody
        /\ tabs[s].fetched[2] = LiveTableBody
        /\ TeamsOf(LiveTeamsBody)[1] # TeamsOf(LiveTableBody)[1]
        /\ TeamsReturned(s)[1] = TeamsOf(LiveTeamsBody)[1]
        /\ Len(TeamsReturned(s)) > Len(UniqueById(Merged(s)))

\* C18: when processing the response of one of the three endpoints throws,
\* getTeams still queries the remaining endpoints in order, returns the merge
\* of the endpoints that succeeded, and does not reject.
C18_PartialFailureSwallowed ==
    \A s \in Switches :
        (/\ Done(s) /\ tabs[s].tabId = "team-stats"
         /\ \E i \in 1..Len(tabs[s].fetched) : IsNull(tabs[s].fetched[i])) =>
            /\ ~tabs[s].loaded.threw
            /\ tabs[s].settled = "resolved"
            /\ [i \in 1..Cardinality(EventsAt(s, "cache.get")) |->
                    tabs[s].trace[CHOOSE j \in EventsAt(s, "cache.get") :
                        Cardinality({k \in EventsAt(s, "cache.get") : k <= j}) = i].key]
                  = fetchTeamsEndpoints(tabs[s].competition, tabs[s].season)
            /\ \A i \in 1..3 : ~IsNull(tabs[s].fetched[i]) =>
                    LET given == TeamsOf(tabs[s].fetched[i]) IN
                    \A j \in 1..Len(given) :
                        \E k \in 1..Len(TeamsReturned(s)) : TeamsReturned(s)[k].id = given[j].id
            /\ Has(tabData, "teams")

\* processing the first and the last response threw, the second gave teams
C18_Witness ==
    \E s \in Switches :
        /\ TeamsDone(s)
        /\ IsNull(tabs[s].fetched[1]) /\ IsNull(tabs[s].fetched[3])
        /\ tabs[s].fetched[2] = LiveTableBody
        /\ \E k \in 1..Len(TeamsReturned(s)) : TeamsReturned(s)[k].id = "133635"

\* the table a league-tables call returned to switchTab
TableReturned(s) == tabs[s].loaded.value.standings[1].table

\* a league-tables call has returned
StandingsDone(s) == Done(s) /\ tabs[s].tabId = "league-tables" /\ ~tabs[s].loaded.threw

\* C19: every row getStandings returns that was built from a source row
\* without an explicit goal-difference field has goalDifference equal to its
\* goalsFor minus its goalsAgainst.
C19_GoalDifferenceComputed ==
    \A s \in Switches :
        (StandingsDone(s) /\ Has(tabs[s].fetched[1], "table")) =>
            LET source == tabs[s].fetched[1].table
                table == TableReturned(s) IN
            /\ Len(table) = Len(source)
            /\ \A i \in 1..Len(source) :
                    ~Has(source[i], "intGoalDifference") =>
                        table[i].goalDifference = table[i].goalsFor - table[i].goalsAgainst

\* rows without the field came back with a positive and a negative difference
C19_Witness ==
    /\ StandingsDone(1)
    /\ tabs[1].fetched[1] = SparseTableBody
    /\ ~Has(SparseTableBody.table[1], "intGoalDifference")
    /\ TableReturned(1)[1].goalDifference = 3
    /\ TableReturned(1)[2].goalDifference = 0 - 5
    /\ tabData = tabs[1].loaded.value

\* the codes getLeagueId maps
SupportedCompetitions == {"PL", "PD", "SA", "BL1", "FL1"}

\* C20: for each competition code in {PL, PD, SA, BL1, FL1} and every season,
\* getStandings on a cold cache returns a non-empty table, and when the table
\* comes from the mock dataset of getMockStandingsData its rows have
\* position 1, 2, 3, ... in order.
C20_Original ==
    \A s \in Switches :
        (/\ Done(s) /\ tabs[s].tabId = "league-tables"
         /\ tabs[s].competition \in SupportedCompetitions
         /\ ~AnsweredFromCache(s, 1)) =>
            /\ ~tabs[s].loaded.threw
            /\ Len(TableReturned(s)) > 0
            /\ ~Has(tabs[s].fetched[1], "table") =>
                    \A i \in 1..Len(TableReturned(s)) : TableReturned(s)[i].position = i

\* the fetchAnalyticsData call has settled
AnalyticsDone == analytics.pc = "done"

\* the standings feed returned, and the table the summary is derived from
StandingsFeedReturned == analytics.standings.pc = "settled" /\ ~analytics.standings.out.threw

MatchesFeedReturned == analytics.matches.pc = "settled" /\ ~analytics.matches.out.threw

StandingsFeedTable == StandingsTableOf(analytics.standings.out.value)

\* C21: when the standings feed is empty (the table has no rows, so the
\* played games sum to 0), getAnalyticsSummary returns avgGoalsPerMatch equal
\* to the number 0, neither NaN nor an error.
C21_EmptyFeedAverageZero ==
    (AnalyticsDone /\ StandingsFeedReturned /\ StandingsFeedTable = <<>>) =>
        /\ analytics.settled = "resolved"
        /\ analytics.result.avgGoalsPerMatch = Tenths(0)

\* the provider sent a table without rows and some finished matches: the
\* summary comes from the try block
C21_Witness ==
    /\ AnalyticsDone /\ StandingsFeedReturned /\ MatchesFeedReturned
    /\ analytics.standings.fetched = EmptyTableBody
    /\ analytics.result.recentMatches # <<>>
    /\ analytics.result.leagueStats # <<>>
    /\ analytics.result.avgGoalsPerMatch = Tenths(0)

\* C22: getAnalyticsSummary never rejects: when getStandings or
\* getPastMatches throws it returns the summary with totalGoals 0,
\* avgGoalsPerMatch 0, topScorerGoals 0, topScoringTeam 'Unknown' and empty
\* topTeams, recentMatches and leagueStats.
C22_NeverRejects ==
    /\ analytics.settled # "rejected"
    /\ AnalyticsDone => analytics.settled = "resolved"
    /\ (AnalyticsDone /\ \E f \in Feeds : analytics[f].out.threw) =>
            /\ analytics.result.totalGoals = 0
            /\ analytics.result.avgGoalsPerMatch = Tenths(0)
            /\ analytics.result.topScorerGoals = 0
            /\ analytics.result.topScoringTeam = "Unknown"
            /\ analytics.result.topTeams = <<>>
            /\ analytics.result.recentMatches = <<>>
            /\ analytics.result.leagueStats = <<>>
    /\ (analytics.pc = "waiting") => \A f \in Feeds : ~analytics[f].out.threw

\* getPastMatches threw on a null body while getStandings returned a table
C22_Witness ==
    /\ AnalyticsDone
    /\ analytics.matches.out.threw
    /\ StandingsFeedReturned /\ Len(StandingsFeedTable) > 0
    /\ analytics.settled = "resolved"
    /\ analytics.result = EmptySummary

\* the four static lookups for a competition code
ConfigOf(code) ==
    [id |-> getLeagueId(code), name |-> getCompetitionName(code),
     country |-> getCountryForCompetition(code), slug |-> getLeagueName(code)]

-----------------------------------------------------------------------------
(* Properties of the cache across FootballAPI instances *)

\* the entry of the first instance for the key was stored before the call
\* of the second instance started, and was fresh then
FreshInOtherAt(endpoint, t) ==
    /\ endpoint \in DOMAIN cache
    /\ cache[endpoint].timestamp <= t
    /\ (t - cache[endpoint].timestamp) < cacheExpiry

\* C24 as stated: a payload cached through one FootballAPI instance is
\* served within its TTL, with no live call, to a fetchData call for the
\* same key made through any other instance.
C24_Original ==
    [][\A e \in {RepeatKey} :
        (PeerFetchDataCall(e) /\ CacheHit(e))
            => /\ http' = http
               /\ peer'.call.outcome = "hit"
               /\ peer'.call.result = cache[e].data]_vars

\* C24, amended: the cache belongs to one FootballAPI instance.  A fetchData
\* call made through an instance is served with no live call exactly when
\* that instance itself stored a payload for the key within the TTL, and is
\* then given that payload; what another instance has cached plays no part,
\* and a call of one instance leaves the cache of the other as it was.
C24_CachePerInstance ==
    [][\A e \in {RepeatKey} :
        PeerFetchDataCall(e)
            => /\ cache' = cache
               /\ IF /\ e \in DOMAIN peer.cache
                     /\ (now - peer.cache[e].timestamp) < cacheExpiry
                  THEN /\ http' = http
                       /\ peer'.call.outcome = "hit"
                       /\ peer'.call.result = peer.cache[e].data
                  ELSE /\ http'[e] = http[e] + 1
                       /\ peer'.call.pc = "fetch"]_vars

\* the second instance went live for a key the first held fresh at that time
C24_Witness ==
    /\ peer.call.pc = "fetch"
    /\ FreshInOtherAt(peer.call.endpoint, peer.call.startedAt)
    /\ calls[1].outcome = "ok"
    /\ http[peer.call.endpoint] = 2

-----------------------------------------------------------------------------
(* Properties of the loading flag *)

\* C25: isLoading is true at every moment at which at least one switchTab
\* call has started and not yet completed, overlapping calls included; it is
\* false only when no call is in flight.
C25_Original == (~NoneInFlight) => isLoading

-----------------------------------------------------------------------------
(* Properties of what the cache holds *)

\* C26: every payload stored in the cache was the body of a 2xx live
\* response; the substitute returned on a failed call is never written to the
\* cache, under any interleaving of fetchData calls.
C26_CacheHoldsOnlyLiveBodies ==
    \A k \in DOMAIN cache :
        /\ cache[k].data \in ServerBodies(k)
        /\ cache[k].data # getMockData(k)
        /\ \E c \in Callers :
              /\ calls[c].outcome = "ok"
              /\ calls[c].endpoint = k
              /\ calls[c].result = cache[k].data

\* a call failed and returned the substitute for a key whose entry, stored
\* earlier, is still the live body
C26_Witness ==
    \E c, d \in Callers :
        /\ calls[c].outcome \in Failures
        /\ calls[c].pc = "returned"
        /\ calls[c].result = getMockData(calls[c].endpoint)
        /\ calls[d].outcome = "ok"
        /\ calls[d].endpoint = calls[c].endpoint
        /\ calls[c].endpoint \in DOMAIN cache
        /\ cache[calls[c].endpoint].data = calls[d].result
        /\ cache[calls[c].endpoint].timestamp < calls[c].startedAt

-----------------------------------------------------------------------------
(* Properties of the standings fallback *)

\* the response fetchStandings was given has no table array or an empty one
NoUsableTable(data) ==
    /\ ~IsNull(data)
    /\ \/ ~Has(data, "table")
       \/ Len(data.table) = 0

\* C27: when the fetched standings response has no table array or an empty
\* one, getStandings returns the mock standings of getMockStandingsData for
\* the competition and season (the "2024-2025" table when the season is
\* absent or has no entry for the competition).
C27_Original ==
    \A s \in Switches :
        (StandingsDone(s) /\ NoUsableTable(tabs[s].fetched[1])) =>
            /\ ~tabs[s].loaded.threw
            /\ tabs[s].loaded.value = getMockStandingsData(tabs[s].competition, tabs[s].season)

-----------------------------------------------------------------------------
(* Properties of the substitute payload *)

\* the shape the substring tests select for an endpoint key
SubstituteFor(key) ==
    IF Includes(key, "teams") THEN "teams"
    ELSE IF Includes(key, "table") THEN "table"
    ELSE IF Includes(key, "events") \/ Includes(key, "matches") THEN "events"
    ELSE "message"

\* the shape of a substitute payload: the list it carries, or only a message
ShapeOf(payload) ==
    IF Has(payload, "teams") THEN "teams"
    ELSE IF Has(payload, "table") THEN "table"
    ELSE IF Has(payload, "events") THEN "events"
    ELSE IF Has(payload, "message") THEN "message"
    ELSE "none"

\* the endpoint key of the i-th fetchData call of switchTab call s
KeyOf(s, i) ==
    IF tabs[s].tabId = "team-stats"
    THEN fetchTeamsEndpoints(tabs[s].competition, tabs[s].season)[i]
    ELSE FirstEndpoint(tabs[s].tabId, tabs[s].competition, tabs[s].season)

\* the direct call has ended and its live call had failed
DirectAnsweredWithMock == direct.pc = "done" /\ Has(direct.fetched, "_isMockData")

\* a list of top scorers
ScorerRows == [name : STRING, goals : Int, team : STRING, nationality : STRING]

\* the list the caller of the method expects is there
ListPresent(fn, value) ==
    CASE fn = "fetchLineup" -> Has(value, "lineup")
      [] fn = "fetchEventStats" -> Has(value, "eventstats")
      [] fn = "fetchTimeline" -> Has(value, "timeline")
      [] fn = "fetchTopScorers" -> value \in Seq(ScorerRows)
      [] fn = "fetchMatches" -> Has(value, "matches")
      [] fn = "fetchCompetitionMatches" -> Has(value, "matches")
      [] fn = "fetchData" -> TRUE
      [] fn = "live-matches" -> Has(value, "matches")
      [] fn = "recent-results" -> Has(value, "matches")
      [] fn = "team-stats" -> Has(value, "teams")
      [] fn = "league-tables" -> Has(value, "standings") /\ Has(value.standings[1], "table")

\* C28: on a failed live call the substitute is chosen from the endpoint key
\* alone, by substring tests in the order teams, table, events or matches,
\* else a message-only payload; and for each endpoint key a normalizer
\* builds, the substitute leads the normalizer to return a result that has
\* the list its callers expect.
C28_SubstituteByKey ==
    /\ DirectAnsweredWithMock =>
            /\ ShapeOf(direct.fetched) = SubstituteFor(direct.endpoint)
            /\ ~direct.out.threw
            /\ ListPresent(direct.fn, direct.out.value)
    /\ \A s \in Switches :
            /\ \A i \in 1..Len(tabs[s].fetched) :
                    AnsweredWithMock(s, i) =>
                        ShapeOf(tabs[s].fetched[i]) = SubstituteFor(KeyOf(s, i))
            /\ ( /\ Done(s) /\ tabs[s].tabId \in KnownTabs
                 /\ \A i \in 1..Len(tabs[s].fetched) : AnsweredWithMock(s, i) )
                    => /\ ~tabs[s].loaded.threw
                       /\ ListPresent(tabs[s].tabId, tabs[s].loaded.value)

\* the statistics call got the events payload, its key holding 'events', and
\* returned an empty statistics list; the three calls of getTeams all failed
C28_Witness ==
    /\ DirectAnsweredWithMock
    /\ direct.fn = "fetchEventStats"
    /\ direct.fetched = MockEventsPayload
    /\ direct.out.value = [eventstats |-> <<>>]
    /\ Done(1) /\ tabs[1].tabId = "team-stats"
    /\ Len(tabs[1].fetched) = 3
    /\ \A i \in 1..3 : AnsweredWithMock(1, i)
    /\ Len(tabs[1].loaded.value.teams) >= 10

-----------------------------------------------------------------------------
(* Properties of the match status *)

\* the status the two methods give a provider status string
StatusFor(strStatus) ==
    IF strStatus = "Match Finished" THEN "FINISHED"
    ELSE IF strStatus = "Not Started" THEN "SCHEDULED"
    ELSE "IN_PLAY"

\* the event of the response a produced match was built from
SourceEvent(events, match) ==
    events[CHOOSE i \in 1..Len(events) : events[i].idEvent = match.id]

\* one of the two match methods has returned the matches of a response
MatchesReturned ==
    /\ direct.pc = "done"
    /\ direct.fn \in {"fetchMatches", "fetchCompetitionMatches"}
    /\ ~direct.out.threw
    /\ Has(direct.fetched, "events")

\* C29: in getUpcomingMatches and getPastMatches the status of every produced
\* match is FINISHED when the provider status is exactly "Match Finished",
\* SCHEDULED when it is exactly "Not Started", and IN_PLAY for every other
\* value, a missing one included; no other status is produced.
C29_StatusMapping ==
    MatchesReturned =>
        LET events == direct.fetched.events
            matches == direct.out.value.matches IN
        \A i \in 1..Len(matches) :
            /\ matches[i].status \in {"SCHEDULED", "IN_PLAY", "FINISHED"}
            /\ matches[i].status = StatusFor(Field(SourceEvent(events, matches[i]), "strStatus"))

\* getPastMatches mapped events of every kind of status, the one without a
\* status among them
C29_Witness ==
    /\ MatchesReturned
    /\ direct.fn = "fetchCompetitionMatches"
    /\ direct.fetched = StatusEventsBody
    /\ Len(direct.out.value.matches) = 7
    /\ direct.out.value.matches[7].id = "917"
    /\ direct.out.value.matches[7].status = "IN_PLAY"
    /\ direct.out.value.matches[1].status = "FINISHED"
    /\ direct.out.value.matches[2].status = "SCHEDULED"

-----------------------------------------------------------------------------
(* Properties of the live-matches tab *)

\* the positions of the matches fetchMatches returned that are in play
LivePositions(matches) ==
    {i \in 1..Len(matches) : matches[i].status \in {"IN_PLAY", "LIVE"}}

\* where a match stands in a list, by its identifier
PositionOf(matches, match) ==
    CHOOSE i \in 1..Len(matches) : matches[i].id = match.id

\* C30: when at least one match returned by getUpcomingMatches has status
\* IN_PLAY or LIVE, switchTab('live-matches', ...) stores a payload whose
\* matches list is exactly the sub-list of those matches, in their original
\* order, and which carries no message field.
C30_LiveOnlyInOrder ==
    \A s \in Switches :
        (/\ Done(s) /\ tabs[s].tabId = "live-matches"
         /\ ~UpcomingOf(s).threw
         /\ LivePositions(UpcomingOf(s).value.matches) # {}) =>
            LET given == UpcomingOf(s).value.matches
                stored == WriteOf(s).matches IN
            /\ ~Has(WriteOf(s), "message")
            /\ Len(stored) = Cardinality(LivePositions(given))
            /\ \A j \in 1..Len(stored) :
                    /\ PositionOf(given, stored[j]) \in LivePositions(given)
                    /\ stored[j] = given[PositionOf(given, stored[j])]
            /\ \A j, k \in 1..Len(stored) :
                    j < k => PositionOf(given, stored[j]) < PositionOf(given, stored[k])

\* five of the seven matches returned were in play, with others between
\* them, and those five were stored
C30_Witness ==
    /\ Done(1) /\ tabs[1].tabId = "live-matches"
    /\ tabs[1].fetched[1] = StatusEventsBody
    /\ LivePositions(UpcomingOf(1).value.matches) = {3, 4, 5, 6, 7}
    /\ tabData = WriteOf(1)
    /\ Len(tabData.matches) = 5
    /\ tabData.matches[1].id = "913"
    /\ tabData.matches[5].id = "917"
    /\ ~Has(tabData, "message")

-----------------------------------------------------------------------------
(* Properties of the shared live-matches key *)

\* the live-matches calls that have ended with a match list
UpcomingDone ==
    {s \in Switches : Done(s) /\ tabs[s].tabId = "live-matches" /\ Has(WriteOf(s), "matches")}

\* every event of the response carries a season string
Seasoned(data) ==
    \A i \in 1..Len(data.events) : Truthy(Field(data.events[i], "strSeason"))

\* the two match lists agree in everything but the season field
SameButSeason(ms, ns) ==
    /\ Len(ms) = Len(ns)
    /\ \A i \in 1..Len(ms) : [ms[i] EXCEPT !.season = ""] = [ns[i] EXCEPT !.season = ""]

\* the request and the cache entry of live-matches calls whatever their
\* competition and season: one endpoint key, one cache entry, and a call made
\* after a live answer was stored is served that answer from the cache
OneUpcomingEntry ==
    /\ DOMAIN cache \subseteq {fetchMatchesEndpoint}
    /\ \A e \in DOMAIN http : e # fetchMatchesEndpoint => http[e] = 0
    /\ \A s \in UpcomingDone : tabs[s].endpoint = fetchMatchesEndpoint
    /\ \A s, u \in UpcomingDone :
            (s < u /\ ~AnsweredWithMock(s, 1))
                => AnsweredFromCache(u, 1) /\ tabs[u].fetched = tabs[s].fetched

\* C31 as stated: live-matches calls that differ only in competition or season
\* issue the same request, share one cache entry, and store the same match list
C31_Original ==
    /\ OneUpcomingEntry
    /\ \A s, u \in UpcomingDone :
            tabs[s].fetched = tabs[u].fetched => WriteOf(s).matches = WriteOf(u).matches

\* C31: live-matches calls issue the same request and share one cache entry
\* whatever their competition and season; on the same response they store the
\* same match list when they differ only in competition, or when every event
\* of the response carries a season string; with a different season the lists
\* agree in everything but the season field, which for a match made from an
\* event without a season string is the season of the call, or "2024-2025"
\* when the call names none
C31_SharedUpcoming ==
    /\ OneUpcomingEntry
    /\ \A s, u \in UpcomingDone :
            tabs[s].fetched = tabs[u].fetched =>
                LET data == tabs[s].fetched[1]
                    ms == WriteOf(s).matches
                    ns == WriteOf(u).matches IN
                /\ SameButSeason(ms, ns)
                /\ (tabs[s].season = tabs[u].season \/ Seasoned(data)) => ms = ns
                /\ \A i \in 1..Len(ms) :
                        \E e \in {data.events[j] : j \in 1..Len(data.events)} :
                            /\ ms[i].id = Field(e, "idEvent")
                            /\ ms[i].season = OrElse(Field(e, "strSeason"),
                                                     OrElse(tabs[s].season, "2024-2025"))

\* two calls that differ in competition and in season, the second answered from
\* the cache entry of the first, whose events partly carry no season: the two
\* stored lists differ, and only in the season field
C31_Witness ==
    \E s, u \in UpcomingDone :
        /\ s < u
        /\ tabs[s].competition # tabs[u].competition
        /\ tabs[s].season # tabs[u].season
        /\ tabs[s].fetched = <<UnseasonedEventsBody>>
        /\ AnsweredFromCache(u, 1)
        /\ tabs[u].fetched = tabs[s].fetched
        /\ http[fetchMatchesEndpoint] = 1
        /\ DOMAIN cache = {fetchMatchesEndpoint}
        /\ WriteOf(s).matches # WriteOf(u).matches
        /\ SameButSeason(WriteOf(s).matches, WriteOf(u).matches)

-----------------------------------------------------------------------------
(* Properties of the season filter of fetchCompetitionMatches *)

\* fetchCompetitionMatches has returned the matches of a response
PastReturned ==
    /\ direct.pc = "done"
    /\ direct.fn = "fetchCompetitionMatches"
    /\ ~direct.out.threw
    /\ Has(direct.fetched, "events")

\* the identifiers of the events, in order
IdsOf(events) == [i \in 1..Len(events) |-> events[i].idEvent]

\* C32: when getPastMatches is called with a season, every match it returns
\* comes from a source event whose season string is exactly the requested
\* season, and has that season as its season field; when no season is
\* supplied, no event is filtered out.
C32_SeasonFilter ==
    PastReturned =>
        LET events == direct.fetched.events
            matches == direct.out.value.matches
            season == direct.season IN
        IF Truthy(season)
        THEN \A i \in 1..Len(matches) :
                /\ \E j \in 1..Len(events) : events[j].idEvent = matches[i].id
                /\ Field(SourceEvent(events, matches[i]), "strSeason") = season
                /\ matches[i].season = season
        ELSE [i \in 1..Len(matches) |-> matches[i].id] = IdsOf(events)

\* a call for season 2023-2024 answered with seven events, three of that
\* season: those three are returned, in order
C32_Witness ==
    /\ PastReturned
    /\ direct.season = "2023-2024"
    /\ direct.fetched = StatusEventsBody
    /\ [i \in 1..Len(direct.out.value.matches) |-> direct.out.value.matches[i].id]
            = <<"911", "914", "917">>

-----------------------------------------------------------------------------
(* Properties of the top-scoring team of the analytics summary *)

\* the greatest goalsFor of a table with rows
MaxGoalsFor(table) ==
    CHOOSE g \in {table[i].goalsFor : i \in 1..Len(table)} :
        \A i \in 1..Len(table) : table[i].goalsFor <= g

\* the first row, in table order, with the greatest goalsFor
FirstWithMaxGoals(table) ==
    table[CHOOSE i \in 1..Len(table) :
            /\ table[i].goalsFor = MaxGoalsFor(table)
            /\ \A j \in 1..(i - 1) : table[j].goalsFor # MaxGoalsFor(table)]

\* the summary was computed from a standings table with rows
SummaryOfTable ==
    /\ AnalyticsDone /\ StandingsFeedReturned /\ MatchesFeedReturned
    /\ StandingsFeedTable # <<>>

\* C33: for every non-empty standings table, one whose rows all have goalsFor
\* 0 included, getAnalyticsSummary reports as top-scoring team the first row,
\* in table order, whose goalsFor is the maximum of the table, and reports
\* that maximum as topScorerGoals.
C33_Original ==
    SummaryOfTable =>
        /\ analytics.result.topScorerGoals = MaxGoalsFor(StandingsFeedTable)
        /\ analytics.result.topScoringTeam = FirstWithMaxGoals(StandingsFeedTable).team.name

\* the same for the tables in which some team has scored
C33_PositiveMaximum ==
    (SummaryOfTable /\ MaxGoalsFor(StandingsFeedTable) > 0) =>
        /\ analytics.result.topScorerGoals = MaxGoalsFor(StandingsFeedTable)
        /\ analytics.result.topScoringTeam = FirstWithMaxGoals(StandingsFeedTable).team.name

\* a table of two rows without goals: the summary names no team
C33_NoTeamNamed ==
    /\ SummaryOfTable
    /\ analytics.standings.fetched = ZeroGoalsTableBody
    /\ Len(StandingsFeedTable) = 2
    /\ analytics.result.topScorerGoals = 0
    /\ analytics.result.topScoringTeam = "Unknown"

\* a table whose second and third rows share the maximum: the second is named
C33_TieNamesFirst ==
    /\ SummaryOfTable
    /\ analytics.standings.fetched = TiedGoalsTableBody
    /\ analytics.result.topScorerGoals = 5
    /\ analytics.result.topScoringTeam = "Fulham"

-----------------------------------------------------------------------------
(* Properties of the top-scorers fallback *)

\* fetchTopScorers has ended
ScorersDone == direct.pc = "done" /\ direct.fn = "fetchTopScorers"

\* the response fetchTopScorers was given carries no scorer list
NoScorerList(data) == ~IsNull(data) /\ ~Has(data, "topscorers")

\* the mock list the claim names for a competition and a season
MockListFor(competition, season) ==
    LET code == IF competition \in DOMAIN mockScorers THEN competition ELSE "PL"
        listed == Truthy(season) /\ season \in DOMAIN mockScorers[code]
    IN  mockScorers[code][IF listed THEN season ELSE "2024-2025"]

-----------------------------------------------------------------------------
(* Properties of the lifetime of cache entries *)

\* call c completes a successful live fetch in this step
Stores(c) == calls[c].pc = "json" /\ calls'[c].outcome = "ok"

\* C35: cache entries are never deleted: across any sequence of fetchData
\* calls (hits, successful fetches, failed fetches) and any passage of time
\* the set of keys in the cache never loses a key, and the entry of a key
\* changes only by being overwritten by a successful fetch of that same key
\* completing in that step.
C35_NeverEvicted ==
    [][/\ DOMAIN cache \subseteq DOMAIN cache'
       /\ \A k \in DOMAIN cache :
            cache'[k] # cache[k] =>
                \E c \in Callers :
                    /\ Stores(c)
                    /\ calls[c].endpoint = k
                    /\ cache'[k].data = calls'[c].result]_vars

\* an entry that has expired is still in the cache, as it was stored, after
\* a later live call for its key failed
C35_Witness ==
    \E c \in Callers :
        /\ calls[c].outcome \in Failures
        /\ calls[c].endpoint \in DOMAIN cache
        /\ now - cache[calls[c].endpoint].timestamp >= 600000
        /\ cache[calls[c].endpoint].timestamp < calls[c].startedAt

-----------------------------------------------------------------------------
(* Properties of the active tab under overlapping calls *)

\* C36: at every moment after the first switchTab call, the value last passed
\* to setActiveTab is the tabId of the most recently issued switchTab call;
\* the later completion of an earlier-issued call never changes it.
C36_ActiveTabIsLatestIssued ==
    [][/\ tabs'[1].pc # "idle" => activeTab' = tabs'[LatestSwitch'].tabId
       /\ \A s \in Switches : Starts(s) => activeTab' = tabs'[s].tabId
       /\ \A s \in Switches : (Completes(s) /\ ~Starts(s)) => activeTab' = activeTab]_vars

\* the first call, for another tab than the second, ended after the second
\* one had ended: the tab data is its write, the active tab is the second's
C36_Witness ==
    /\ Done(1) /\ Done(2)
    /\ tabs[1].tabId # tabs[2].tabId
    /\ tabData = WriteOf(1)
    /\ WriteOf(1) # WriteOf(2)
    /\ activeTab = tabs[2].tabId

-----------------------------------------------------------------------------
(* Properties of the count field of stored payloads *)

\* the list a stored payload carries, when it carries one
ListOf(payload) ==
    IF Has(payload, "matches") THEN payload.matches
    ELSE IF Has(payload, "teams") THEN payload.teams
    ELSE <<>>

Counted(payload) ==
    /\ Has(payload, "count")
    /\ Has(payload, "matches") \/ Has(payload, "teams")

\* C37: in every payload stored by switchTab that has both a matches (or
\* teams) list and a count field, count is the number of elements of that
\* list, also after the IN_PLAY/LIVE and FINISHED filters of the controller.
C37_Original ==
    \A s \in Switches :
        (Done(s) /\ Counted(WriteOf(s))) => WriteOf(s).count = Len(ListOf(WriteOf(s)))

\* the live-matches call stored five live matches of seven events, and the
\* count of the seven
C37_StaleCount ==
    /\ Done(1)
    /\ tabs[1].tabId = "live-matches"
    /\ tabs[1].fetched = <<StatusEventsBody>>
    /\ Len(WriteOf(1).matches) = 5
    /\ WriteOf(1).count = 7

-----------------------------------------------------------------------------
(* Properties of the contact form *)

\* handleSubmit is called in this step
Submits == contactForm'.made = contactForm.made + 1

\* emailjs.send is called in this step
Sends == contactForm'.sends # contactForm.sends

\* the emailjs.send call of the form settles in this step
Settles == contactForm.pc = "sending" /\ contactForm'.pc = "idle"

LastToast(f) == f.toasts[Len(f.toasts)]

\* C38: handleSubmit calls emailjs.send only if name, email, subject and
\* message are all non-blank after trimming and the email contains '@';
\* otherwise it shows an error, sends nothing, opens no mailto fallback, and
\* leaves the form data and isSubmitting (false) unchanged.
C38_SendOnlyIfValid ==
    [][/\ Sends => Submits
       /\ Submits =>
            LET d == contactForm.formData
                filled == /\ Trim(d.name) # "" /\ Trim(d.email) # ""
                          /\ Trim(d.subject) # "" /\ Trim(d.message) # "" IN
            IF filled /\ Includes(d.email, "@")
            THEN contactForm'.sends = Append(contactForm.sends, TemplateParams(d))
            ELSE /\ contactForm'.sends = contactForm.sends
                 /\ contactForm'.opened = contactForm.opened
                 /\ contactForm'.formData = d
                 /\ ~contactForm.isSubmitting /\ ~contactForm'.isSubmitting
                 /\ Len(contactForm'.toasts) = Len(contactForm.toasts) + 1
                 /\ LastToast(contactForm').kind = "error"]_vars

\* a form with every field filled and an email without '@' was submitted, and
\* so was one whose name is blanks only: two error toasts, nothing sent
C38_Witness ==
    /\ contactForm.made = 2
    /\ contactForm.sends = <<>>
    /\ contactForm.opened = <<>>
    /\ ~contactForm.isSubmitting
    /\ contactForm.formData = [name |-> "  ", email |-> "ann.example.org",
                               subject |-> "Hi", message |-> "Hello"]
    /\ contactForm.toasts =
            << [kind |-> "error", text |-> "Please enter a valid email address."],
               [kind |-> "error", text |-> "Please fill in all required fields."] >>

\* C39: for every validated submission, isSubmitting is true from before the
\* send starts until the send settles and false afterwards; the form fields
\* are reset to empty if and only if emailjs.send succeeded, and when it fails
\* the entered data is retained and the mailto fallback is opened exactly once.
C39_SubmittingUntilSettled ==
    [][/\ Sends => contactForm'.isSubmitting /\ contactForm'.pc = "sending"
       /\ contactForm'.isSubmitting <=> contactForm'.pc = "sending"
       /\ (contactForm.pc = "sending" /\ ~Settles) => contactForm'.isSubmitting
       /\ contactForm'.opened # contactForm.opened => Settles
       /\ Settles =>
            /\ ~contactForm'.isSubmitting
            /\ Len(contactForm'.toasts) = Len(contactForm.toasts) + 1
            /\ IF LastToast(contactForm').kind = "success"
               THEN /\ contactForm'.formData = EmptyFormData
                    /\ contactForm'.opened = contactForm.opened
               ELSE /\ contactForm'.formData = contactForm.formData
                    /\ contactForm'.opened =
                            Append(contactForm.opened, MailtoLink(contactForm.submitted))]_vars

\* a submission failed, the data stayed in the form and one mailto link was
\* opened; submitted again as it was, it was sent and the form was reset
C39_Witness ==
    /\ contactForm.made = 2
    /\ Len(contactForm.sends) = 2
    /\ contactForm.sends[1] = contactForm.sends[2]
    /\ Len(contactForm.opened) = 1
    /\ Len(contactForm.toasts) = 2
    /\ contactForm.toasts[1].kind = "error"
    /\ contactForm.toasts[2].kind = "success"
    /\ contactForm.formData = EmptyFormData
    /\ ~contactForm.isSubmitting
====
